---- MODULE Spec2Model ----
(***************************************************************************)
(* Model of CausalReasoningStrategy                                        *)
(* (src/kg-agent-reproduction/src/kg_agent/extensions/causal_reasoning.py) *)
(*                                                                         *)
(* The specifications share the variables below.                           *)
(*   Spec      : one call of reason(task, knowledge, memory), stepped      *)
(*               through the graph builder up to the return statement.     *)
(*   SpecPaths : one direct call of _identify_causal_paths(graph,          *)
(*               hypothesis) on a graph dictionary.                        *)
(*   SpecAnalysis : the analysis stages of reason() called in its order on *)
(*               a graph dictionary: _identify_causal_paths,               *)
(*               _calculate_causal_strength, _identify_confounders,        *)
(*               _calculate_overall_confidence.                            *)
(*   SpecConfidence : one direct call of _calculate_overall_confidence on  *)
(*               a results dictionary.                                     *)
(*   SpecIntervention : one direct call of _analyze_intervention.          *)
(*   SpecCounterfactual : one direct call of _counterfactual_analysis, the *)
(*               samples of np.random.normal chosen nondeterministically.  *)
(*   SpecDfs, SpecDfsFair : _identify_causal_paths stepped through the     *)
(*               calls of _dfs_causal_paths, without and with fairness.    *)
(*   SpecConcurrent : two calls on one instance, interleaved.              *)
(*                                                                         *)
(* Python values are represented as follows.                               *)
(*   str            a sequence of one-character strings ("A_B" is          *)
(*                  <<"A","_","B">>), so that str.split can be computed.   *)
(*   dict read only through .get : a TLA+ function whose DOMAIN is the set *)
(*                  of keys present; {} is the empty function <<>>.        *)
(*   dict that is iterated (relations) : a sequence of [key, data]         *)
(*                  records in insertion order, keys pairwise distinct.    *)
(*   float          a decimal fraction, computed exactly: an edge weight   *)
(*                  is an integer number of tenths (0.5 is 5), a strength  *)
(*                  an integer number of millionths (FloatOne is 1.0), a   *)
(*                  mean a fraction [num, den] of millionths. Equality of  *)
(*                  floats is equality of the decimal fractions.           *)
(***************************************************************************)
EXTENDS Integers, Sequences, FiniteSets, TLC

VARIABLES
    task,        \* reason(): the task argument; SpecPaths: carries the hypothesis
    knowledge,   \* reason(): the knowledge argument
    max_depth,   \* self.max_depth
    pc,          \* position of the call
    nodes,       \* _build_causal_graph local `nodes` / graph['nodes'] (ids, in insertion order)
    edges,       \* _build_causal_graph local `edges` / graph['edges']
    relIdx,      \* position of the `for rel_key, rel_data in relations.items()` loop
    exc,         \* the exception in flight or caught ("none" when there is none)
    result,      \* the record reason() returned (<<>> before it returns)
    paths,       \* the list _identify_causal_paths returned
    causal_strength, \* the dict _calculate_causal_strength returned
    confounders, \* the list _identify_confounders returned
    confidence,  \* the float _calculate_overall_confidence returned
    before,      \* the confidence of the analysis made before the graph was extended
    intervention_effects, \* the dict _analyze_intervention returned
    counterfactuals, \* the dict _counterfactual_analysis returned
    dfs_stack,   \* the pending calls of _dfs_causal_paths, innermost last
    dfs_path,    \* the list `path` shared by the calls of _dfs_causal_paths
    dfs_visited, \* the set `visited` shared by the calls of _dfs_causal_paths
    dfs_all_paths, \* the list `all_paths` shared by the calls of _dfs_causal_paths
    queries      \* SpecConcurrent: the arguments and local objects of the suspended call

\* the variables of the stepped depth-first search
dfsVars == <<dfs_stack, dfs_path, dfs_visited, dfs_all_paths>>

vars == <<task, knowledge, max_depth, pc, nodes, edges, relIdx, exc, result, paths,
          causal_strength, confounders, confidence, before,
          intervention_effects, counterfactuals, dfsVars, queries>>

----------------------------------------------------------------------------
(* Bounds of the model *)

\* largest number of entries of subgraph['relations'] in a reason() query
MaxRels == 2

\* largest number of entries of graph['edges'] handed to _identify_causal_paths
MaxEdges == 3

\* largest configured max_causal_depth tried by SpecPaths
MaxDepthBound == 2

\* largest number of entries of results['confounders'] tried by SpecConfidence
MaxConfounders == 11

----------------------------------------------------------------------------
(* Python helpers *)

\* the float 0.0 as a fraction
Zero == [num |-> 0, den |-> 1]

\* the Python value None where a str is expected (no str of the model equals it)
None == <<"None">>

\* dict.get(key, default) on a dict read only through .get
Get(d, k, default) == IF k \in DOMAIN d THEN d[k] ELSE default

\* the Python value None where a type tag is expected
NoneTag == "None"

\* the Python value None where a dict is expected (no dict of the model equals it)
NoneDict == [none |-> TRUE]

\* truth value of an Optional[Dict]: None and {} are false
TruthyDict(v) == v # NoneDict /\ v # <<>>

\* truth value of a dict or a list: {} and [] are false
Truthy(v) == DOMAIN v # {}

\* truth value of an Optional[str]: None and '' are false
TruthyStr(v) == v # None /\ v # <<>>

\* the keys of an iterated dict, as a set
DictKeys(d) == {d[i].key : i \in DOMAIN d}

\* dict.get(key, default) on an iterated dict
DictGet(d, k, default) ==
    IF k \in DictKeys(d)
    THEN (CHOOSE e \in {d[i] : i \in DOMAIN d} : e.key = k).data
    ELSE default

\* d[key] = data on an iterated dict: an existing key keeps its position
DictSet(d, k, v) ==
    IF k \in DictKeys(d)
    THEN [i \in DOMAIN d |-> IF d[i].key = k THEN [key |-> k, data |-> v] ELSE d[i]]
    ELSE Append(d, [key |-> k, data |-> v])

RECURSIVE SplitFrom(_, _, _, _)
SplitFrom(s, i, cur, acc) ==
    IF i > Len(s) THEN Append(acc, cur)
    ELSE IF s[i] = "_" THEN SplitFrom(s, i + 1, <<>>, Append(acc, cur))
    ELSE SplitFrom(s, i + 1, Append(cur, s[i]), acc)

\* str.split('_'): the substrings between the underscores, empty ones included
Split(s) == SplitFrom(s, 1, <<>>, <<>>)

----------------------------------------------------------------------------
(* Values the queries are drawn from *)

IdA == <<"A">>
IdB == <<"B">>
IdC == <<"C">>
IdAB == <<"A", "_", "B">>

\* task['entities']
EntityLists == {<<>>, <<IdA, IdB>>, <<IdA, IdB, IdC>>, <<IdAB, IdC>>}

\* task['hypothesis']: empty, cause and effect, one of them missing, and
\* cause and effect with an intervention on the cause of value 1.0
Hypotheses ==
    {<<>>, [cause |-> IdA, effect |-> IdB], [cause |-> IdA], [effect |-> IdB],
     [cause |-> IdA, effect |-> IdB,
      intervention |-> [variable |-> IdA, value |-> 10^6]]}

\* the task argument, with either key present or missing
Tasks ==
    {<<>>} \cup {[entities |-> e] : e \in EntityLists}
           \cup {[hypothesis |-> h] : h \in Hypotheses}
           \cup {[entities |-> e, hypothesis |-> h] : e \in EntityLists, h \in Hypotheses}

\* composite relation keys: A_B, B_C, A_C, AC (no underscore), A_B_C (two)
RelKeys ==
    {<<"A", "_", "B">>, <<"B", "_", "C">>, <<"A", "_", "C">>,
     <<"A", "C">>, <<"A", "_", "B", "_", "C">>}

\* relation records: causal with strength 0.8, causal with strength 2.5,
\* causal without strength, another type, and a record without a type
RelDatas ==
    {[type |-> "causal", strength |-> 8], [type |-> "causal", strength |-> 25],
     [type |-> "causal"], [type |-> "correlation", strength |-> 8], <<>>}

RelEntries == [key : RelKeys, data : RelDatas]

\* subgraph['relations']: at most MaxRels entries, keys pairwise distinct
RelDicts ==
    {r \in UNION {[1..n -> RelEntries] : n \in 0..MaxRels} :
        \A i, j \in DOMAIN r : i # j => r[i].key # r[j].key}

\* subgraph['entities'] and knowledge['temporal_data'] of the populated shape
SubgraphEntities == <<[key |-> IdA, data |-> [type |-> "policy"]]>>
TemporalData == <<[key |-> IdA, data |-> [historical_values |-> <<2, 3>>]]>>

\* the knowledge argument: {} or a populated record
Knowledges ==
    {<<>>} \cup
    {[subgraph |-> [entities |-> SubgraphEntities, relations |-> r],
      temporal_data |-> TemporalData] : r \in RelDicts}

\* max_causal_depth default of __init__
DefaultMaxDepth == 3

\* "no exception"
NoExc == [type |-> "none", msg |-> ""]

\* the exception classes derived from Exception that the model raises
ExceptionSubclasses == {"ValueError", "AttributeError"}

\* the methods CausalReasoningStrategy defines or inherits
ClassMethods ==
    {"__init__", "reason", "_build_causal_graph", "_identify_causal_paths",
     "_dfs_causal_paths", "_calculate_path_strength", "_calculate_causal_strength",
     "_analyze_intervention", "_calculate_direct_effect", "_calculate_indirect_effects",
     "_identify_confounders", "_has_causal_edge", "_counterfactual_analysis",
     "_predict_outcome", "_calculate_overall_confidence",
     "_calculate_intervention_confidence", "_calculate_counterfactual_confidence",
     "_empty_result", "_error_result"}

----------------------------------------------------------------------------
(* Result records *)

\* _empty_result()
EmptyResult ==
    [causal_graph |-> <<>>,
     causal_paths |-> <<>>,
     causal_strength |-> [overall_strength |-> 0],
     intervention_effects |-> <<>>,
     confounders |-> <<>>,
     counterfactuals |-> <<>>,
     confidence |-> 0,
     reasoning_type |-> "causal_reasoning"]

\* _error_result(error): {**_empty_result(), 'error': error, 'status': 'failed'}
ErrorResult(error) == [error |-> error, status |-> "failed"] @@ EmptyResult

----------------------------------------------------------------------------
(* reason(): lines 45-52, the arguments and the empty-input exit *)

Entities == Get(task, "entities", <<>>)
Hypothesis == Get(task, "hypothesis", <<>>)
Subgraph == Get(knowledge, "subgraph", <<>>)
TemporalDataArg == Get(knowledge, "temporal_data", <<>>)

\* `if not entities or not hypothesis`
EmptyInputMutant(entities, hypothesis) == ~Truthy(entities) /\ ~Truthy(hypothesis)
EmptyInput(entities, hypothesis) == ~Truthy(entities) \/ ~Truthy(hypothesis)

ReasonStart ==
    /\ pc = "start"
    /\ IF EmptyInput(Entities, Hypothesis)
       THEN /\ result' = EmptyResult
            /\ pc' = "done"
       ELSE /\ result' = result
            /\ pc' = "build_nodes"
    /\ UNCHANGED <<task, knowledge, max_depth, nodes, edges, relIdx, exc, paths,
                   causal_strength, confounders, confidence, before,
                   intervention_effects, counterfactuals, dfsVars, queries>>

----------------------------------------------------------------------------
(* _build_causal_graph *)

\* the node record of one entity (lines 118-122)
NodeRecord(entity, subgraph, temporal_data) ==
    [type |-> "entity",
     properties |-> DictGet(Get(subgraph, "entities", <<>>), entity, <<>>),
     temporal_features |-> DictGet(temporal_data, entity, <<>>)]

RECURSIVE NodeLoop(_, _, _, _, _)
NodeLoop(entities, i, subgraph, temporal_data, acc) ==
    IF i > Len(entities) THEN acc
    ELSE NodeLoop(entities, i + 1, subgraph, temporal_data,
                  DictSet(acc, entities[i],
                          NodeRecord(entities[i], subgraph, temporal_data)))

\* `for entity in entities: nodes[entity] = {...}` (lines 113-122)
BuildNodes ==
    /\ pc = "build_nodes"
    /\ nodes' = NodeLoop(Entities, 1, Subgraph, TemporalDataArg, <<>>)
    /\ edges' = <<>>
    /\ relIdx' = 1
    /\ pc' = "build_relations"
    /\ UNCHANGED <<task, knowledge, max_depth, exc, result, paths,
                   causal_strength, confounders, confidence, before,
                   intervention_effects, counterfactuals, dfsVars, queries>>

\* subgraph.get('relations', {})
Relations == Get(Subgraph, "relations", <<>>)

\* the exception of `source, target = rel_key.split('_')`
UnpackError(parts) ==
    [type |-> "ValueError",
     msg |-> IF Len(parts) < 2
             THEN "not enough values to unpack (expected 2, got 1)"
             ELSE "too many values to unpack (expected 2)"]

\* the edge appended for a causal relation (lines 129-135)
EdgeRecord(parts, rel_data) ==
    [source |-> parts[1],
     target |-> parts[2],
     weight |-> Get(rel_data, "strength", 5),
     type |-> "causal",
     evidence |-> Get(rel_data, "evidence", <<>>)]

\* one iteration of `for rel_key, rel_data in relations.items()` (lines 126-135)
BuildRelation ==
    /\ pc = "build_relations"
    /\ relIdx <= Len(Relations)
    /\ LET rel_key == Relations[relIdx].key
           rel_data == Relations[relIdx].data
           parts == Split(rel_key)
       IN  IF Get(rel_data, "type", NoneTag) = "causal"
           THEN IF Len(parts) # 2
                THEN /\ exc' = UnpackError(parts)
                     /\ pc' = "except"
                     /\ UNCHANGED <<edges, relIdx>>
                ELSE /\ edges' = Append(edges, EdgeRecord(parts, rel_data))
                     /\ relIdx' = relIdx + 1
                     /\ UNCHANGED <<exc, pc>>
           ELSE /\ relIdx' = relIdx + 1
                /\ UNCHANGED <<edges, exc, pc>>
    /\ UNCHANGED <<task, knowledge, max_depth, nodes, result, paths,
                   causal_strength, confounders, confidence, before,
                   intervention_effects, counterfactuals, dfsVars, queries>>

\* the return statement (lines 137-145): building the metadata looks up
\* self._calculate_temporal_coverage
BuildReturn ==
    /\ pc = "build_relations"
    /\ relIdx > Len(Relations)
    /\ IF "_calculate_temporal_coverage" \in ClassMethods
       THEN /\ pc' = "built"
            /\ exc' = exc
       ELSE /\ exc' = [type |-> "AttributeError",
                       msg |-> "'CausalReasoningStrategy' object has no attribute '_calculate_temporal_coverage'"]
            /\ pc' = "except"
    /\ UNCHANGED <<task, knowledge, max_depth, nodes, edges, relIdx, result, paths,
                   causal_strength, confounders, confidence, before,
                   intervention_effects, counterfactuals, dfsVars, queries>>

----------------------------------------------------------------------------
(* reason(): lines 100-102, the exception handler *)

\* `except Exception as e`
CatchesMutant(e) == e.type = "ValueError"
Catches(e) == e.type \in ExceptionSubclasses

ReasonExcept ==
    /\ pc = "except"
    /\ IF Catches(exc)
       THEN /\ result' = ErrorResult(exc.msg)
            /\ pc' = "done"
       ELSE /\ result' = result
            /\ pc' = "propagated"
    /\ UNCHANGED <<task, knowledge, max_depth, nodes, edges, relIdx, exc, paths,
                   causal_strength, confounders, confidence, before,
                   intervention_effects, counterfactuals, dfsVars, queries>>

----------------------------------------------------------------------------
(* Spec: one call of reason() on a strategy built with the default config.  *)
(* Control never reaches lines 59-98: every call of _build_causal_graph     *)
(* that gets to its return statement raises there.                          *)

Init ==
    /\ task \in Tasks
    /\ knowledge \in Knowledges
    /\ max_depth = DefaultMaxDepth
    /\ pc = "start"
    /\ nodes = <<>>
    /\ edges = <<>>
    /\ relIdx = 0
    /\ exc = NoExc
    /\ result = <<>>
    /\ paths = <<>>
    /\ causal_strength = <<>>
    /\ confounders = <<>>
    /\ confidence = Zero
    /\ before = <<>>
    /\ intervention_effects = <<>>
    /\ counterfactuals = <<>>
    /\ dfs_stack = <<>>
    /\ dfs_path = <<>>
    /\ dfs_visited = {}
    /\ dfs_all_paths = <<>>
    /\ queries = <<>>

Next == ReasonStart \/ BuildNodes \/ BuildRelation \/ BuildReturn \/ ReasonExcept

Spec == Init /\ [][Next]_vars

----------------------------------------------------------------------------
(* _calculate_path_strength, _dfs_causal_paths, _identify_causal_paths *)

\* the float 1.0: strengths are counted in units of 10^-6, weights in tenths
FloatOne == 10^6

\* strength *= weight
TimesWeightMutant(strength, weight) == strength
TimesWeight(strength, weight) == (strength * weight) \div 10

\* `for edge in edges: if source and target match: strength *= weight; break`
RECURSIVE FirstEdgeWeight(_, _, _, _, _)
FirstEdgeWeight(es, k, source, target, strength) ==
    IF k > Len(es) THEN strength
    ELSE IF es[k].source = source /\ es[k].target = target
         THEN TimesWeight(strength, es[k].weight)
         ELSE FirstEdgeWeight(es, k + 1, source, target, strength)

RECURSIVE PathStrengthLoop(_, _, _, _)
PathStrengthLoop(es, path, i, strength) ==
    IF i > Len(path) - 1 THEN strength
    ELSE PathStrengthLoop(es, path, i + 1,
                          FirstEdgeWeight(es, 1, path[i], path[i + 1], strength))

\* _calculate_path_strength(graph, path)
CalculatePathStrength(graph, path) ==
    PathStrengthLoop(Get(graph, "edges", <<>>), path, 1, FloatOne)

\* the record appended to all_paths (lines 191-196)
PathRecord(graph, path) ==
    [path |-> path,
     length |-> Len(path),
     total_strength |-> CalculatePathStrength(graph, path),
     direct |-> Len(path) = 2]

\* `if depth > self.max_depth or current in visited: return`
DfsStopsMutant(current, visited, depth) == depth > max_depth
DfsStops(current, visited, depth) == depth > max_depth \/ current \in visited

\* `if edge['source'] == current and edge['type'] == 'causal'`
EdgeFollowedMutant(edge, current) == edge.source = current
EdgeFollowed(edge, current) == edge.source = current /\ edge.type = "causal"

\* _dfs_causal_paths: st holds the three mutable arguments, path, all_paths and
\* visited, as the call finds them; the value is what the call leaves in them
RECURSIVE DfsCausalPaths(_, _, _, _, _)
RECURSIVE DfsEdgeLoop(_, _, _, _, _, _)
DfsCausalPaths(graph, current, target, st, depth) ==
    IF DfsStops(current, st.visited, depth) THEN st
    ELSE LET entered == [st EXCEPT !.path = Append(@, current),
                                   !.visited = @ \cup {current}]
             recorded ==
                 IF current = target /\ Len(entered.path) > 1
                 THEN [entered EXCEPT
                          !.all_paths = Append(@, PathRecord(graph, entered.path))]
                 ELSE entered
             searched == DfsEdgeLoop(graph, current, target, recorded, depth, 1)
         IN  [searched EXCEPT !.path = SubSeq(@, 1, Len(@) - 1),
                              !.visited = @ \ {current}]

\* `for edge in graph.get('edges', [])` of _dfs_causal_paths, from the k-th edge on
DfsEdgeLoop(graph, current, target, st, depth, k) ==
    LET es == Get(graph, "edges", <<>>)
    IN  IF k > Len(es) THEN st
        ELSE IF EdgeFollowed(es[k], current)
             THEN DfsEdgeLoop(graph, current, target,
                              DfsCausalPaths(graph, es[k].target, target, st, depth + 1),
                              depth, k + 1)
             ELSE DfsEdgeLoop(graph, current, target, st, depth, k + 1)

\* list.sort(key=total_strength, reverse=True): stable, descending
RECURSIVE InsertByStrength(_, _, _)
InsertByStrength(sorted, i, p) ==
    IF i > Len(sorted) THEN Append(sorted, p)
    ELSE IF sorted[i].total_strength < p.total_strength
         THEN SubSeq(sorted, 1, i - 1) \o <<p>> \o SubSeq(sorted, i, Len(sorted))
         ELSE InsertByStrength(sorted, i + 1, p)

RECURSIVE SortLoop(_, _, _)
SortLoop(ps, i, sorted) ==
    IF i > Len(ps) THEN sorted
    ELSE SortLoop(ps, i + 1, InsertByStrength(sorted, 1, ps[i]))

SortByStrengthDescMutant(ps) ==
    SortLoop([i \in 1..Len(ps) |-> ps[Len(ps) + 1 - i]], 1, <<>>)
SortByStrengthDesc(ps) == SortLoop(ps, 1, <<>>)

\* _identify_causal_paths(causal_graph, hypothesis)
IdentifyCausalPaths(graph, hypothesis) ==
    LET cause == Get(hypothesis, "cause", None)
        effect == Get(hypothesis, "effect", None)
    IN  IF ~TruthyStr(cause) \/ ~TruthyStr(effect) THEN <<>>
        ELSE SortByStrengthDesc(
                 DfsCausalPaths(graph, cause, effect,
                                [path |-> <<>>, all_paths |-> <<>>, visited |-> {}],
                                0).all_paths)

\* the graph dictionary made of the variables nodes and edges
Graph == [nodes |-> nodes, edges |-> edges]

\* a direct call of _identify_causal_paths
CallIdentifyCausalPaths ==
    /\ pc = "paths_call"
    /\ paths' = IdentifyCausalPaths(Graph, Hypothesis)
    /\ pc' = "paths_returned"
    /\ UNCHANGED <<task, knowledge, max_depth, nodes, edges, relIdx, exc, result,
                   causal_strength, confounders, confidence, before,
                   intervention_effects, counterfactuals, dfsVars, queries>>

----------------------------------------------------------------------------
(* SpecPaths: _identify_causal_paths called on a graph dictionary whose     *)
(* nodes are those the builder makes of an entity list and whose edge list  *)
(* is any list of at most MaxEdges edges.                                   *)

PathIds == {IdA, IdB, IdC}

CausalEdge(s, t, w) ==
    [source |-> s, target |-> t, weight |-> w, type |-> "causal", evidence |-> <<>>]

\* the edges the edge lists are made of: a causal edge of weight 0.5 for every
\* ordered pair (self-loops included), a second causal edge A->B and a second
\* causal edge C->B of weight 1.0, and two edges of another type
PathEdgeChoices ==
    {CausalEdge(s, t, 5) : s \in PathIds, t \in PathIds}
    \cup {CausalEdge(IdA, IdB, 10), CausalEdge(IdC, IdB, 10),
          [CausalEdge(IdA, IdB, 5) EXCEPT !.type = "correlation"],
          [CausalEdge(IdC, IdB, 5) EXCEPT !.type = "correlation"]}

PathEdgeLists == UNION {[1..n -> PathEdgeChoices] : n \in 0..MaxEdges}

\* entity list and hypothesis: A to B, A to A, cause or effect missing from
\* the hypothesis, cause or effect missing from the entity list
PathQueries ==
    {[entities |-> <<IdA, IdB, IdC>>, hypothesis |-> [cause |-> IdA, effect |-> IdB]],
     [entities |-> <<IdA, IdB, IdC>>, hypothesis |-> [cause |-> IdA, effect |-> IdA]],
     [entities |-> <<IdA, IdB, IdC>>, hypothesis |-> [cause |-> IdA]],
     [entities |-> <<IdA, IdB, IdC>>, hypothesis |-> [effect |-> IdB]],
     [entities |-> <<IdB, IdC>>, hypothesis |-> [cause |-> IdA, effect |-> IdB]],
     [entities |-> <<IdA, IdC>>, hypothesis |-> [cause |-> IdA, effect |-> IdB]]}

InitPaths ==
    /\ task \in PathQueries
    /\ knowledge = <<>>
    /\ max_depth \in 0..MaxDepthBound
    /\ pc = "paths_call"
    /\ nodes = NodeLoop(Entities, 1, <<>>, <<>>, <<>>)
    /\ edges \in PathEdgeLists
    /\ relIdx = 0
    /\ exc = NoExc
    /\ result = <<>>
    /\ paths = <<>>
    /\ causal_strength = <<>>
    /\ confounders = <<>>
    /\ confidence = Zero
    /\ before = <<>>
    /\ intervention_effects = <<>>
    /\ counterfactuals = <<>>
    /\ dfs_stack = <<>>
    /\ dfs_path = <<>>
    /\ dfs_visited = {}
    /\ dfs_all_paths = <<>>
    /\ queries = <<>>

NextPaths == CallIdentifyCausalPaths

SpecPaths == InitPaths /\ [][NextPaths]_vars

----------------------------------------------------------------------------
(* _calculate_causal_strength *)

\* `{'overall_strength': 0.0, 'path_strengths': []}`, returned for no paths
NoPathsStrengthMutant == [overall_strength |-> FloatOne, path_strengths |-> <<>>]
NoPathsStrength == [overall_strength |-> 0, path_strengths |-> <<>>]

\* `max(p['total_strength'] for p in direct_paths)`, from the i-th path on
RECURSIVE MaxTotalStrength(_, _, _)
MaxTotalStrength(ps, i, best) ==
    IF i > Len(ps) THEN best
    ELSE MaxTotalStrength(ps, i + 1,
                          IF ps[i].total_strength > best
                          THEN ps[i].total_strength ELSE best)

\* the exponent of 0.8 in the term of an indirect path
DecayExponentMutant(p) == p.length - 3
DecayExponent(p) == p.length - 2

\* x * (0.8 ** exponent)
RECURSIVE TimesDecay(_, _)
TimesDecay(x, exponent) ==
    IF exponent <= 0 THEN x ELSE TimesDecay((x * 8) \div 10, exponent - 1)

\* `sum(... for p in causal_paths if not p['direct'])`, from the i-th path on
RECURSIVE SumIndirect(_, _, _)
SumIndirect(ps, i, acc) ==
    IF i > Len(ps) THEN acc
    ELSE SumIndirect(ps, i + 1,
                     IF ps[i].direct THEN acc
                     ELSE acc + TimesDecay(ps[i].total_strength, DecayExponent(ps[i])))

\* `min(overall_strength, 1.0)`
CapAtOneMutant(x) == x
CapAtOne(x) == IF x < FloatOne THEN x ELSE FloatOne

\* _calculate_causal_strength(causal_paths, temporal_data)
CalculateCausalStrength(causal_paths, temporal_data) ==
    IF ~Truthy(causal_paths) THEN NoPathsStrength
    ELSE LET direct_paths == SelectSeq(causal_paths, LAMBDA p : p.direct)
             max_direct_strength ==
                 IF Truthy(direct_paths)
                 THEN MaxTotalStrength(direct_paths, 2, direct_paths[1].total_strength)
                 ELSE 0
             indirect_strength == SumIndirect(causal_paths, 1, 0)
             overall_strength == max_direct_strength + (indirect_strength * 3) \div 10
         IN  [overall_strength |-> CapAtOne(overall_strength),
              direct_strength |-> max_direct_strength,
              indirect_strength |-> indirect_strength,
              path_strengths |->
                  [i \in DOMAIN causal_paths |->
                      [path |-> causal_paths[i].path,
                       strength |-> causal_paths[i].total_strength]]]

\* a direct call of _calculate_causal_strength on the enumerated paths
CallCalculateCausalStrength ==
    /\ pc = "paths_returned"
    /\ causal_strength' = CalculateCausalStrength(paths, TemporalDataArg)
    /\ pc' = "strength_returned"
    /\ UNCHANGED <<task, knowledge, max_depth, nodes, edges, relIdx, exc, result, paths,
                   confounders, confidence, before,
                   intervention_effects, counterfactuals, dfsVars, queries>>

----------------------------------------------------------------------------
(* _identify_confounders, _has_causal_edge *)

\* _has_causal_edge(graph, source, target): the first edge from source to
\* target, None when there is none
RECURSIVE HasCausalEdgeLoop(_, _, _, _)
HasCausalEdgeLoop(es, k, source, target) ==
    IF k > Len(es) THEN NoneDict
    ELSE IF es[k].source = source /\ es[k].target = target THEN es[k]
         ELSE HasCausalEdgeLoop(es, k + 1, source, target)

HasCausalEdge(graph, source, target) ==
    HasCausalEdgeLoop(Get(graph, "edges", <<>>), 1, source, target)

\* the record appended for a node with an edge to cause and an edge to effect
ConfounderRecordMutant(node, to_cause, to_effect) ==
    [variable |-> node,
     type |-> "confounder",
     effect_on_cause |-> to_effect.weight,
     effect_on_effect |-> to_cause.weight,
     needs_adjustment |-> TRUE]
ConfounderRecord(node, to_cause, to_effect) ==
    [variable |-> node,
     type |-> "confounder",
     effect_on_cause |-> to_cause.weight,
     effect_on_effect |-> to_effect.weight,
     needs_adjustment |-> TRUE]

\* `for node in causal_graph.get('nodes', {})`, from the i-th node on
RECURSIVE ConfounderLoop(_, _, _, _, _)
ConfounderLoop(graph, cause, effect, i, acc) ==
    LET ns == Get(graph, "nodes", <<>>)
    IN  IF i > Len(ns) THEN acc
        ELSE LET node == ns[i].key
                 to_cause == HasCausalEdge(graph, node, cause)
                 to_effect == HasCausalEdge(graph, node, effect)
             IN  IF node = cause \/ node = effect
                 THEN ConfounderLoop(graph, cause, effect, i + 1, acc)
                 ELSE IF TruthyDict(to_cause) /\ TruthyDict(to_effect)
                      THEN ConfounderLoop(graph, cause, effect, i + 1,
                               Append(acc, ConfounderRecord(node, to_cause, to_effect)))
                      ELSE ConfounderLoop(graph, cause, effect, i + 1, acc)

\* _identify_confounders(causal_graph, entities)
IdentifyConfounders(graph, entities) ==
    IF Len(entities) < 2 THEN <<>>
    ELSE ConfounderLoop(graph, entities[1], entities[2], 1, <<>>)

\* a direct call of _identify_confounders with the arguments of reason()
CallIdentifyConfounders ==
    /\ pc = "strength_returned"
    /\ confounders' = IdentifyConfounders(Graph, Entities)
    /\ pc' = "confounders_returned"
    /\ UNCHANGED <<task, knowledge, max_depth, nodes, edges, relIdx, exc, result, paths,
                   causal_strength, confidence, before,
                   intervention_effects, counterfactuals, dfsVars, queries>>

----------------------------------------------------------------------------
(* _calculate_overall_confidence *)

\* the float x as a fraction
Frac(x) == [num |-> x, den |-> 1]

\* a + b on fractions
FracAdd(a, b) == [num |-> a.num * b.den + b.num * a.den, den |-> a.den * b.den]

\* a <= b and a == b on fractions (denominators are positive)
FracLeq(a, b) == a.num * b.den <= b.num * a.den
FracEq(a, b) == a.num * b.den = b.num * a.den

\* sum(fs) on a list of fractions
RECURSIVE FracSum(_, _, _)
FracSum(fs, i, acc) ==
    IF i > Len(fs) THEN acc ELSE FracSum(fs, i + 1, FracAdd(acc, fs[i]))

\* np.mean(fs) on a non-empty list of fractions
NpMean(fs) ==
    LET total == FracSum(fs, 1, Zero)
    IN  [num |-> total.num, den |-> total.den * Len(fs)]

\* `max(1.0 - confounder_penalty, 0.1)` with confounder_penalty = count * 0.1
PenaltyFactorMutant(count) ==
    LET confounder_penalty == count * (FloatOne \div 10)
    IN  FloatOne + confounder_penalty
PenaltyFactor(count) ==
    LET confounder_penalty == count * (FloatOne \div 10)
    IN  IF FloatOne - confounder_penalty > FloatOne \div 10
        THEN FloatOne - confounder_penalty
        ELSE FloatOne \div 10

\* _calculate_overall_confidence(results)
CalculateOverallConfidence(results) ==
    LET ps == Get(results, "paths", <<>>)
        st == Get(results, "strength", <<>>)
        with_paths ==
            IF Truthy(ps)
            THEN <<NpMean([i \in DOMAIN ps |-> Frac(ps[i].total_strength)])>>
            ELSE <<>>
        with_strength ==
            IF Truthy(st)
            THEN Append(with_paths, Frac(Get(st, "overall_strength", 0)))
            ELSE with_paths
        factors ==
            Append(with_strength,
                   Frac(PenaltyFactor(Len(Get(results, "confounders", <<>>)))))
    IN  IF Truthy(factors) THEN NpMean(factors) ELSE Zero

\* the dictionary reason() hands to _calculate_overall_confidence (lines 91-95)
Results == [paths |-> paths, strength |-> causal_strength, confounders |-> confounders]

\* a direct call of _calculate_overall_confidence with the arguments of reason()
CallCalculateOverallConfidence ==
    /\ pc = "confounders_returned"
    /\ confidence' = CalculateOverallConfidence(Results)
    /\ pc' = "confidence_returned"
    /\ UNCHANGED <<task, knowledge, max_depth, nodes, edges, relIdx, exc, result, paths,
                   causal_strength, confounders, before,
                   intervention_effects, counterfactuals, dfsVars, queries>>

----------------------------------------------------------------------------
(* SpecAnalysis: the analysis stages called one after the other, with the   *)
(* arguments reason() gives them, on a graph dictionary whose nodes are     *)
(* those the builder makes of the entity list. Once the confidence is       *)
(* computed the graph may be extended by a node with an edge to the cause   *)
(* and an edge to the effect, and the stages are called again.              *)

IdD == <<"D">>
IdX == <<"X">>
IdY == <<"Y">>
IdZ == <<"Z">>
IdW == <<"W">>

\* the chain A->B->C->D with the shortcut A->D, and the common cause Z of X and Y
ScenarioQueries ==
    {[entities |-> <<IdA, IdB, IdC, IdD>>,
      hypothesis |-> [cause |-> IdA, effect |-> IdD],
      edges |-> <<CausalEdge(IdA, IdB, 8), CausalEdge(IdB, IdC, 7),
                  CausalEdge(IdC, IdD, 6), CausalEdge(IdA, IdD, 3)>>],
     [entities |-> <<IdX, IdY, IdZ>>,
      hypothesis |-> [cause |-> IdX, effect |-> IdY],
      edges |-> <<CausalEdge(IdZ, IdX, 5), CausalEdge(IdZ, IdY, 4),
                  CausalEdge(IdX, IdY, 3)>>]}

\* the edges the other edge lists are made of: weights 0.5, 1.0 and -1.0,
\* and two edges of another type
AnalysisEdgeChoices ==
    {CausalEdge(IdA, IdB, 5), CausalEdge(IdA, IdB, 10), CausalEdge(IdA, IdB, -10),
     CausalEdge(IdA, IdC, 10), CausalEdge(IdC, IdB, 10), CausalEdge(IdC, IdA, 5),
     [CausalEdge(IdA, IdB, 5) EXCEPT !.type = "correlation"],
     [CausalEdge(IdC, IdA, 5) EXCEPT !.type = "correlation"]}

AnalysisEdgeLists == UNION {[1..n -> AnalysisEdgeChoices] : n \in 0..MaxEdges}

\* the ids in three orders and a single id
AnalysisEntityLists == {<<IdA, IdB, IdC>>, <<IdC, IdA, IdB>>, <<IdB, IdA, IdC>>, <<IdA>>}

AnalysisHypotheses == {[cause |-> IdA, effect |-> IdB], [cause |-> IdA]}

AnalysisQueries ==
    ScenarioQueries
    \cup {[entities |-> l, hypothesis |-> h, edges |-> es] :
             l \in AnalysisEntityLists, h \in AnalysisHypotheses, es \in AnalysisEdgeLists}

InitAnalysis ==
    /\ \E q \in AnalysisQueries :
          /\ task = [entities |-> q.entities, hypothesis |-> q.hypothesis]
          /\ edges = q.edges
    /\ knowledge = <<>>
    /\ max_depth = DefaultMaxDepth
    /\ pc = "paths_call"
    /\ nodes = NodeLoop(Entities, 1, <<>>, <<>>, <<>>)
    /\ relIdx = 0
    /\ exc = NoExc
    /\ result = <<>>
    /\ paths = <<>>
    /\ causal_strength = <<>>
    /\ confounders = <<>>
    /\ confidence = Zero
    /\ before = <<>>
    /\ intervention_effects = <<>>
    /\ counterfactuals = <<>>
    /\ dfs_stack = <<>>
    /\ dfs_path = <<>>
    /\ dfs_visited = {}
    /\ dfs_all_paths = <<>>
    /\ queries = <<>>

\* the weights of the two edges of the added node
AddedWeights == {5, -10}

\* the graph gains the node W with the edges W->cause and W->effect, W is
\* appended to the entity list, and the analysis starts again
AddConfounder ==
    /\ pc = "confidence_returned"
    /\ before = <<>>
    /\ TruthyStr(Get(Hypothesis, "cause", None))
    /\ TruthyStr(Get(Hypothesis, "effect", None))
    /\ \E wc \in AddedWeights, we \in AddedWeights :
          edges' = edges \o <<CausalEdge(IdW, Hypothesis.cause, wc),
                              CausalEdge(IdW, Hypothesis.effect, we)>>
    /\ task' = [task EXCEPT !.entities = Append(@, IdW)]
    /\ nodes' = DictSet(nodes, IdW, NodeRecord(IdW, <<>>, <<>>))
    /\ before' = <<confidence>>
    /\ pc' = "paths_call"
    /\ UNCHANGED <<knowledge, max_depth, relIdx, exc, result, paths,
                   causal_strength, confounders, confidence,
                   intervention_effects, counterfactuals, dfsVars, queries>>

NextAnalysis ==
    \/ CallIdentifyCausalPaths
    \/ CallCalculateCausalStrength
    \/ CallIdentifyConfounders
    \/ CallCalculateOverallConfidence
    \/ AddConfounder

SpecAnalysis == InitAnalysis /\ [][NextAnalysis]_vars

----------------------------------------------------------------------------
(* SpecConfidence: _calculate_overall_confidence called on a results        *)
(* dictionary, any of whose keys paths, strength and confounders may be     *)
(* missing. The variable task carries the dictionary.                       *)

\* the dictionaries holding the key k with one of the values vs, or not holding it
OptionalEntry(k, vs) == {<<>>} \cup {(k :> v) : v \in vs}

\* a path record of the given number of nodes and strength
PathOfStrength(n, s) ==
    [path |-> [i \in 1..n |-> IF i = 1 THEN IdA ELSE IF i = n THEN IdB ELSE IdC],
     length |-> n, total_strength |-> s, direct |-> n = 2]

\* values of results['paths']
ResultsPaths ==
    {<<>>,
     <<PathOfStrength(2, FloatOne \div 2)>>,
     <<PathOfStrength(2, -FloatOne)>>,
     <<PathOfStrength(2, FloatOne), PathOfStrength(3, FloatOne \div 2)>>}

\* values of results['strength']: {}, a record without overall_strength, and
\* records with overall_strength -1.0, 0.0, 0.5 and 1.0
ResultsStrengths ==
    {<<>>, [path_strengths |-> <<>>]}
    \cup {[overall_strength |-> o, path_strengths |-> <<>>] :
             o \in {-FloatOne, 0, FloatOne \div 2, FloatOne}}

\* a list of n confounder records, of the variables Z, ZZ, ZZZ, ...
ConfounderList(n) ==
    [i \in 1..n |->
        LET node == [j \in 1..i |-> "Z"]
        IN  ConfounderRecord(node, CausalEdge(node, IdA, 5), CausalEdge(node, IdB, 5))]

\* values of results['confounders']
ResultsConfounders == {ConfounderList(n) : n \in 0..MaxConfounders}

ResultsDicts ==
    {ps @@ st @@ cs : ps \in OptionalEntry("paths", ResultsPaths),
                      st \in OptionalEntry("strength", ResultsStrengths),
                      cs \in OptionalEntry("confounders", ResultsConfounders)}

InitConfidence ==
    /\ task \in {[results |-> r] : r \in ResultsDicts}
    /\ knowledge = <<>>
    /\ max_depth = DefaultMaxDepth
    /\ pc = "confidence_call"
    /\ nodes = <<>>
    /\ edges = <<>>
    /\ relIdx = 0
    /\ exc = NoExc
    /\ result = <<>>
    /\ paths = <<>>
    /\ causal_strength = <<>>
    /\ confounders = <<>>
    /\ confidence = Zero
    /\ before = <<>>
    /\ intervention_effects = <<>>
    /\ counterfactuals = <<>>
    /\ dfs_stack = <<>>
    /\ dfs_path = <<>>
    /\ dfs_visited = {}
    /\ dfs_all_paths = <<>>
    /\ queries = <<>>

\* a direct call of _calculate_overall_confidence(results)
CallConfidenceOnResults ==
    /\ pc = "confidence_call"
    /\ confidence' = CalculateOverallConfidence(task.results)
    /\ pc' = "confidence_computed"
    /\ UNCHANGED <<task, knowledge, max_depth, nodes, edges, relIdx, exc, result, paths,
                   causal_strength, confounders, before,
                   intervention_effects, counterfactuals, dfsVars, queries>>

NextConfidence == CallConfidenceOnResults

SpecConfidence == InitConfidence /\ [][NextConfidence]_vars

----------------------------------------------------------------------------
(* _analyze_intervention, _calculate_direct_effect,                         *)
(* _calculate_indirect_effects, _calculate_intervention_confidence          *)

\* `e['source'] == variable`
LeavesVariableMutant(edge, variable) == edge.source = variable /\ edge.type = "causal"
LeavesVariable(edge, variable) == edge.source = variable

\* `edge['weight'] * value`
WeightTimesValueMutant(weight, value) == (weight * FloatOne) \div 10
WeightTimesValue(weight, value) == (weight * value) \div 10

\* _calculate_direct_effect(graph, variable, value), from the k-th edge on
RECURSIVE DirectEffectLoop(_, _, _, _, _)
DirectEffectLoop(es, k, variable, value, acc) ==
    IF k > Len(es) THEN acc
    ELSE DirectEffectLoop(es, k + 1, variable, value,
                          IF LeavesVariable(es[k], variable)
                          THEN acc + WeightTimesValue(es[k].weight, value)
                          ELSE acc)

CalculateDirectEffect(graph, variable, value) ==
    DirectEffectLoop(Get(graph, "edges", <<>>), 1, variable, value, 0)

\* f"{variable}->{mediator}->{target}"
ChainKey(variable, mediator, target) ==
    variable \o <<"-", ">">> \o mediator \o <<"-", ">">> \o target

\* `for edge2 in graph.get('edges', [])` of _calculate_indirect_effects
RECURSIVE IndirectInnerLoop(_, _, _, _, _, _)
IndirectInnerLoop(es, edge1, k, variable, value, effects) ==
    IF k > Len(es) THEN effects
    ELSE IndirectInnerLoop(es, edge1, k + 1, variable, value,
             IF es[k].source = edge1.target
             THEN DictSet(effects,
                          ChainKey(variable, edge1.target, es[k].target),
                          WeightTimesValue(es[k].weight,
                                           WeightTimesValue(edge1.weight, value)))
             ELSE effects)

\* `for edge1 in graph.get('edges', [])` of _calculate_indirect_effects
RECURSIVE IndirectOuterLoop(_, _, _, _, _)
IndirectOuterLoop(es, k, variable, value, effects) ==
    IF k > Len(es) THEN effects
    ELSE IndirectOuterLoop(es, k + 1, variable, value,
             IF es[k].source = variable
             THEN IndirectInnerLoop(es, es[k], 1, variable, value, effects)
             ELSE effects)

\* _calculate_indirect_effects(graph, variable, value)
CalculateIndirectEffects(graph, variable, value) ==
    IndirectOuterLoop(Get(graph, "edges", <<>>), 1, variable, value, <<>>)

\* sum(d.values()) on an iterated dict, from the i-th entry on
RECURSIVE SumValues(_, _, _)
SumValues(d, i, acc) ==
    IF i > Len(d) THEN acc ELSE SumValues(d, i + 1, acc + d[i].data)

\* _calculate_intervention_confidence(graph, variable): min(0.9, len(edges) * 0.3)
CalculateInterventionConfidence(graph, variable) ==
    LET es == SelectSeq(Get(graph, "edges", <<>>), LAMBDA e : e.source = variable)
        scaled == Len(es) * ((3 * FloatOne) \div 10)
    IN  IF (9 * FloatOne) \div 10 < scaled THEN (9 * FloatOne) \div 10 ELSE scaled

\* _analyze_intervention(causal_graph, hypothesis)
AnalyzeIntervention(graph, hypothesis) ==
    LET intervention == Get(hypothesis, "intervention", <<>>)
        target_variable == Get(intervention, "variable", None)
        intervention_value == Get(intervention, "value", 0)
        direct_effect == CalculateDirectEffect(graph, target_variable, intervention_value)
        indirect_effects ==
            CalculateIndirectEffects(graph, target_variable, intervention_value)
    IN  IF ~Truthy(intervention) THEN <<>>
        ELSE [target_variable |-> target_variable,
              intervention_value |-> intervention_value,
              direct_effect |-> direct_effect,
              indirect_effects |-> indirect_effects,
              total_effect |-> direct_effect + (SumValues(indirect_effects, 1, 0) * 7) \div 10,
              confidence |-> CalculateInterventionConfidence(graph, target_variable)]

\* a direct call of _analyze_intervention with the arguments of reason()
CallAnalyzeIntervention ==
    /\ pc = "intervention_call"
    /\ intervention_effects' = AnalyzeIntervention(Graph, Hypothesis)
    /\ pc' = "intervention_returned"
    /\ UNCHANGED <<task, knowledge, max_depth, nodes, edges, relIdx, exc, result, paths,
                   causal_strength, confounders, confidence, before,
                   counterfactuals, dfsVars, queries>>

----------------------------------------------------------------------------
(* SpecIntervention: _analyze_intervention called on a graph dictionary     *)
(* for a hypothesis with or without an intervention.                        *)

\* values of intervention['value']: 0, 0.5, 1.0 and -1.0
InterventionValues == {0, FloatOne \div 2, FloatOne, -FloatOne}

\* values of hypothesis['intervention']: {}, a variable and a value, and
\* either of them missing
Interventions ==
    {<<>>, [variable |-> IdA], [value |-> FloatOne]}
    \cup {[variable |-> x, value |-> v] : x \in {IdA, IdC}, v \in InterventionValues}

InterventionHypotheses ==
    {[cause |-> IdA, effect |-> IdB]}
    \cup {[cause |-> IdA, effect |-> IdB, intervention |-> i] : i \in Interventions}

InitIntervention ==
    /\ task \in {[entities |-> <<IdA, IdB, IdC>>, hypothesis |-> h] :
                    h \in InterventionHypotheses}
    /\ knowledge = <<>>
    /\ max_depth = DefaultMaxDepth
    /\ pc = "intervention_call"
    /\ nodes = NodeLoop(Entities, 1, <<>>, <<>>, <<>>)
    /\ edges \in AnalysisEdgeLists
    /\ relIdx = 0
    /\ exc = NoExc
    /\ result = <<>>
    /\ paths = <<>>
    /\ causal_strength = <<>>
    /\ confounders = <<>>
    /\ confidence = Zero
    /\ before = <<>>
    /\ intervention_effects = <<>>
    /\ counterfactuals = <<>>
    /\ dfs_stack = <<>>
    /\ dfs_path = <<>>
    /\ dfs_visited = {}
    /\ dfs_all_paths = <<>>
    /\ queries = <<>>

NextIntervention == CallAnalyzeIntervention

SpecIntervention == InitIntervention /\ [][NextIntervention]_vars

----------------------------------------------------------------------------
(* _counterfactual_analysis, _predict_outcome,                              *)
(* _calculate_counterfactual_confidence                                     *)

\* values np.random.normal(0, 0.1) may return: -0.1, 0.0 and 0.1 stand for
\* the samples of the distribution
NoiseSamples == {-(FloatOne \div 10), 0, FloatOne \div 10}

\* _predict_outcome(graph, variable, value), noise being the sample drawn
PredictOutcome(graph, variable, value, noise) == (value * 8) \div 10 + noise

\* _calculate_counterfactual_confidence(graph, variable): 0.7
CalculateCounterfactualConfidence(graph, variable) == (7 * FloatOne) \div 10

\* _counterfactual_analysis(causal_graph, hypothesis), noise1 and noise2
\* being the samples drawn by the two calls of _predict_outcome
CounterfactualAnalysis(graph, hypothesis, noise1, noise2) ==
    LET counterfactual == Get(hypothesis, "counterfactual", <<>>)
        original_value == Get(counterfactual, "original_value", 0)
        counterfactual_value == Get(counterfactual, "counterfactual_value", 0)
        variable == Get(counterfactual, "variable", None)
        factual_outcome == PredictOutcome(graph, variable, original_value, noise1)
        counterfactual_outcome ==
            PredictOutcome(graph, variable, counterfactual_value, noise2)
    IN  IF ~Truthy(counterfactual) THEN <<>>
        ELSE [variable |-> variable,
              factual_outcome |-> factual_outcome,
              counterfactual_outcome |-> counterfactual_outcome,
              individual_treatment_effect |-> counterfactual_outcome - factual_outcome,
              confidence |-> CalculateCounterfactualConfidence(graph, variable)]

\* a direct call of _counterfactual_analysis with the arguments of reason()
CallCounterfactualAnalysis ==
    /\ pc = "counterfactual_call"
    /\ \E noise1 \in NoiseSamples, noise2 \in NoiseSamples :
          counterfactuals' = CounterfactualAnalysis(Graph, Hypothesis, noise1, noise2)
    /\ pc' = "counterfactual_returned"
    /\ UNCHANGED <<task, knowledge, max_depth, nodes, edges, relIdx, exc, result, paths,
                   causal_strength, confounders, confidence, before,
                   intervention_effects, dfsVars, queries>>

----------------------------------------------------------------------------
(* SpecCounterfactual: _counterfactual_analysis called on a graph           *)
(* dictionary for a hypothesis with or without a counterfactual.            *)

\* values of original_value and counterfactual_value: 0, 0.5, 1.0 and -1.0
CounterfactualValues == {0, FloatOne \div 2, FloatOne, -FloatOne}

\* values of hypothesis['counterfactual']: {}, the three keys, and the
\* values missing
Counterfactuals ==
    {<<>>, [variable |-> IdA]}
    \cup {[variable |-> IdA, original_value |-> o, counterfactual_value |-> c] :
             o \in CounterfactualValues, c \in CounterfactualValues}

CounterfactualHypotheses ==
    {[cause |-> IdA, effect |-> IdB]}
    \cup {[cause |-> IdA, effect |-> IdB, counterfactual |-> c] : c \in Counterfactuals}

InitCounterfactual ==
    /\ task \in {[entities |-> <<IdA, IdB>>, hypothesis |-> h] :
                    h \in CounterfactualHypotheses}
    /\ knowledge = <<>>
    /\ max_depth = DefaultMaxDepth
    /\ pc = "counterfactual_call"
    /\ nodes = NodeLoop(Entities, 1, <<>>, <<>>, <<>>)
    /\ edges \in {<<>>, <<CausalEdge(IdA, IdB, 5)>>}
    /\ relIdx = 0
    /\ exc = NoExc
    /\ result = <<>>
    /\ paths = <<>>
    /\ causal_strength = <<>>
    /\ confounders = <<>>
    /\ confidence = Zero
    /\ before = <<>>
    /\ intervention_effects = <<>>
    /\ counterfactuals = <<>>
    /\ dfs_stack = <<>>
    /\ dfs_path = <<>>
    /\ dfs_visited = {}
    /\ dfs_all_paths = <<>>
    /\ queries = <<>>

NextCounterfactual == CallCounterfactualAnalysis

SpecCounterfactual == InitCounterfactual /\ [][NextCounterfactual]_vars

----------------------------------------------------------------------------
(* _identify_causal_paths and _dfs_causal_paths, one step at a time.        *)
(* dfs_stack holds the pending calls of _dfs_causal_paths, the innermost    *)
(* last; dfs_path, dfs_visited and dfs_all_paths are the list, the set and  *)
(* the list that every call shares.  A frame records the call's arguments   *)
(* current and depth, whether the call has passed its guard (entered), the  *)
(* index k of the next edge of its loop, and the values path and visited    *)
(* had when the call was made (path_at_entry, visited_at_entry).            *)

\* `cause = hypothesis.get('cause')`, `effect = hypothesis.get('effect')`
HypothesisCause == Get(Hypothesis, "cause", None)
HypothesisEffect == Get(Hypothesis, "effect", None)

Frame(current, depth) ==
    [current |-> current, depth |-> depth, entered |-> FALSE, k |-> 0,
     path_at_entry |-> dfs_path, visited_at_entry |-> dfs_visited]

\* the innermost pending call
Top == dfs_stack[Len(dfs_stack)]

Pop(stack) == SubSeq(stack, 1, Len(stack) - 1)

\* `depth + 1`, the depth argument of the recursive call
NextDepthMutant(depth) == depth
NextDepth(depth) == depth + 1

\* `visited.remove(current)`
VisitedRemoveMutant(visited, current) == visited
VisitedRemove(visited, current) == visited \ {current}

\* _identify_causal_paths up to its call of _dfs_causal_paths (lines 154-166)
IdentifyCausalPathsStart ==
    /\ pc = "dfs_call"
    /\ dfs_path' = <<>>
    /\ dfs_visited' = {}
    /\ dfs_all_paths' = <<>>
    /\ IF ~TruthyStr(HypothesisCause) \/ ~TruthyStr(HypothesisEffect)
       THEN /\ paths' = <<>>
            /\ pc' = "paths_returned"
            /\ dfs_stack' = <<>>
       ELSE /\ paths' = paths
            /\ pc' = "dfs"
            /\ dfs_stack' = <<[Frame(HypothesisCause, 0) EXCEPT !.path_at_entry = <<>>,
                                                       !.visited_at_entry = {}]>>
    /\ UNCHANGED <<task, knowledge, max_depth, nodes, edges, relIdx, exc, result,
                   causal_strength, confounders, confidence, before,
                   intervention_effects, counterfactuals, queries>>

\* the guard of _dfs_causal_paths and, when it lets the call pass, the
\* statements up to the edge loop (lines 182-196)
DfsEnter ==
    /\ pc = "dfs"
    /\ dfs_stack # <<>>
    /\ ~Top.entered
    /\ IF DfsStops(Top.current, dfs_visited, Top.depth)
       THEN /\ dfs_stack' = Pop(dfs_stack)
            /\ UNCHANGED <<dfs_path, dfs_visited, dfs_all_paths>>
       ELSE /\ dfs_path' = Append(dfs_path, Top.current)
            /\ dfs_visited' = dfs_visited \cup {Top.current}
            /\ dfs_all_paths' =
                   IF Top.current = HypothesisEffect /\ Len(dfs_path') > 1
                   THEN Append(dfs_all_paths, PathRecord(Graph, dfs_path'))
                   ELSE dfs_all_paths
            /\ dfs_stack' = [dfs_stack EXCEPT ![Len(dfs_stack)].entered = TRUE,
                                              ![Len(dfs_stack)].k = 1]
    /\ UNCHANGED <<task, knowledge, max_depth, pc, nodes, edges, relIdx, exc, result,
                   paths, causal_strength, confounders, confidence, before,
                   intervention_effects, counterfactuals, queries>>

\* one iteration of `for edge in graph.get('edges', [])` (lines 199-204): the
\* recursive call is made for an edge that leaves current and is causal
DfsEdge ==
    /\ pc = "dfs"
    /\ dfs_stack # <<>>
    /\ Top.entered
    /\ Top.k <= Len(edges)
    /\ LET advanced == [dfs_stack EXCEPT ![Len(dfs_stack)].k = @ + 1]
           edge == edges[Top.k]
       IN  dfs_stack' =
               IF EdgeFollowed(edge, Top.current)
               THEN Append(advanced, Frame(edge.target, NextDepth(Top.depth)))
               ELSE advanced
    /\ UNCHANGED <<task, knowledge, max_depth, pc, nodes, edges, relIdx, exc, result,
                   paths, causal_strength, confounders, confidence, before,
                   intervention_effects, counterfactuals, dfs_path, dfs_visited,
                   dfs_all_paths, queries>>

\* the end of the edge loop: `path.pop()`, `visited.remove(current)`, return
DfsExit ==
    /\ pc = "dfs"
    /\ dfs_stack # <<>>
    /\ Top.entered
    /\ Top.k > Len(edges)
    /\ dfs_path' = SubSeq(dfs_path, 1, Len(dfs_path) - 1)
    /\ dfs_visited' = VisitedRemove(dfs_visited, Top.current)
    /\ dfs_stack' = Pop(dfs_stack)
    /\ UNCHANGED <<task, knowledge, max_depth, pc, nodes, edges, relIdx, exc, result,
                   paths, causal_strength, confounders, confidence, before,
                   intervention_effects, counterfactuals, dfs_all_paths, queries>>

\* the outermost call has returned: `paths.sort(...)`, `return paths`
IdentifyCausalPathsReturn ==
    /\ pc = "dfs"
    /\ dfs_stack = <<>>
    /\ paths' = SortByStrengthDesc(dfs_all_paths)
    /\ pc' = "paths_returned"
    /\ UNCHANGED <<task, knowledge, max_depth, nodes, edges, relIdx, exc, result,
                   causal_strength, confounders, confidence, before,
                   intervention_effects, counterfactuals, dfsVars, queries>>

----------------------------------------------------------------------------
(* SpecDfs: the steps of _identify_causal_paths on graphs with cycles,      *)
(* self-loops and edges of another type.  SpecDfsFair adds that a call that *)
(* can take a step takes it: the coroutines are awaited one inside the      *)
(* other and nothing else runs on the event loop.                           *)

\* the edges the edge lists are made of
DfsEdgeChoices ==
    {CausalEdge(IdA, IdB, 5), CausalEdge(IdB, IdA, 5), CausalEdge(IdA, IdA, 5),
     CausalEdge(IdA, IdC, 5), CausalEdge(IdC, IdB, 10),
     [CausalEdge(IdA, IdB, 5) EXCEPT !.type = "correlation"]}

DfsEdgeLists == UNION {[1..n -> DfsEdgeChoices] : n \in 0..MaxEdges}

\* A to B, A to A, and a hypothesis without a cause
DfsQueries ==
    {[entities |-> <<IdA, IdB, IdC>>, hypothesis |-> [cause |-> IdA, effect |-> IdB]],
     [entities |-> <<IdA, IdB, IdC>>, hypothesis |-> [cause |-> IdA, effect |-> IdA]],
     [entities |-> <<IdA, IdB, IdC>>, hypothesis |-> [effect |-> IdB]]}

InitDfs ==
    /\ task \in DfsQueries
    /\ knowledge = <<>>
    /\ max_depth \in 0..MaxDepthBound
    /\ pc = "dfs_call"
    /\ nodes = NodeLoop(Entities, 1, <<>>, <<>>, <<>>)
    /\ edges \in DfsEdgeLists
    /\ relIdx = 0
    /\ exc = NoExc
    /\ result = <<>>
    /\ paths = <<>>
    /\ causal_strength = <<>>
    /\ confounders = <<>>
    /\ confidence = Zero
    /\ before = <<>>
    /\ intervention_effects = <<>>
    /\ counterfactuals = <<>>
    /\ dfs_stack = <<>>
    /\ dfs_path = <<>>
    /\ dfs_visited = {}
    /\ dfs_all_paths = <<>>
    /\ queries = <<>>

NextDfs ==
    \/ IdentifyCausalPathsStart
    \/ DfsEnter
    \/ DfsEdge
    \/ DfsExit
    \/ IdentifyCausalPathsReturn

SpecDfs == InitDfs /\ [][NextDfs]_vars

SpecDfsFair == SpecDfs /\ WF_vars(NextDfs)

----------------------------------------------------------------------------
(* Two calls on one CausalReasoningStrategy instance.  The variables task,  *)
(* knowledge, pc, nodes, edges, relIdx, exc, result, paths and the four     *)
(* dfs variables are the arguments and local objects of the call that is    *)
(* running; queries holds those of the suspended call.  The instance        *)
(* attribute max_depth is the one thing both calls read.                    *)

\* the arguments and local objects of the running call
Activation ==
    [task |-> task, knowledge |-> knowledge, pc |-> pc, nodes |-> nodes,
     edges |-> edges, relIdx |-> relIdx, exc |-> exc, result |-> result,
     paths |-> paths, dfs_stack |-> dfs_stack, dfs_path |-> dfs_path,
     dfs_visited |-> dfs_visited, dfs_all_paths |-> dfs_all_paths]

\* the path list the resumed call works on: the list made for it by the `[]`
\* of line 165, not the one the suspended call was using
PathOfMutant(saved, running) == running
PathOf(saved, running) == saved

\* the event loop suspends the running call at a step boundary and resumes
\* the other one
Switch ==
    /\ queries # <<>>
    /\ LET other == queries[1]
       IN  /\ queries' = <<Activation>>
           /\ task' = other.task
           /\ knowledge' = other.knowledge
           /\ pc' = other.pc
           /\ nodes' = other.nodes
           /\ edges' = other.edges
           /\ relIdx' = other.relIdx
           /\ exc' = other.exc
           /\ result' = other.result
           /\ paths' = other.paths
           /\ dfs_stack' = other.dfs_stack
           /\ dfs_path' = PathOf(other.dfs_path, dfs_path)
           /\ dfs_visited' = other.dfs_visited
           /\ dfs_all_paths' = other.dfs_all_paths
    /\ UNCHANGED <<max_depth, causal_strength, confounders, confidence, before,
                   intervention_effects, counterfactuals>>

----------------------------------------------------------------------------
(* SpecConcurrent: two calls, each either reason() or                       *)
(* _identify_causal_paths on a built graph, interleaved step by step.       *)

\* a call of reason(task, knowledge, memory) about to start
ReasonCall(t, k) ==
    [task |-> t, knowledge |-> k, pc |-> "start", nodes |-> <<>>, edges |-> <<>>,
     relIdx |-> 0, exc |-> NoExc, result |-> <<>>, paths |-> <<>>,
     dfs_stack |-> <<>>, dfs_path |-> <<>>, dfs_visited |-> {},
     dfs_all_paths |-> <<>>]

\* a call of _identify_causal_paths(causal_graph, hypothesis) about to start
PathsCall(es, h) ==
    [ReasonCall([entities |-> <<IdA, IdB, IdC>>, hypothesis |-> h], <<>>)
        EXCEPT !.pc = "dfs_call",
               !.nodes = NodeLoop(<<IdA, IdB, IdC>>, 1, <<>>, <<>>, <<>>),
               !.edges = es]

\* knowledge with one causal relation under the key rel_key
KnowledgeWith(rel_key) ==
    [subgraph |-> [entities |-> SubgraphEntities,
                   relations |-> <<[key |-> rel_key,
                                    data |-> [type |-> "causal", strength |-> 8]]>>],
     temporal_data |-> TemporalData]

\* reason() on A -> B with the relation A_B, with the relation A_B_C, and on
\* an empty task; _identify_causal_paths from A to B on A->B, A->C, C->B and
\* from C to B on C->A, A->A, A->B
ConcurrentCalls ==
    {ReasonCall([entities |-> <<IdA, IdB>>,
                 hypothesis |-> [cause |-> IdA, effect |-> IdB]], KnowledgeWith(IdAB)),
     ReasonCall([entities |-> <<IdA, IdB>>,
                 hypothesis |-> [cause |-> IdA, effect |-> IdB]],
                KnowledgeWith(<<"A", "_", "B", "_", "C">>)),
     ReasonCall(<<>>, <<>>),
     PathsCall(<<CausalEdge(IdA, IdB, 5), CausalEdge(IdA, IdC, 5),
                 CausalEdge(IdC, IdB, 10)>>, [cause |-> IdA, effect |-> IdB]),
     PathsCall(<<CausalEdge(IdC, IdA, 5), CausalEdge(IdA, IdA, 5),
                 CausalEdge(IdA, IdB, 5)>>, [cause |-> IdC, effect |-> IdB])}

InitConcurrent ==
    /\ \E first \in ConcurrentCalls :
          /\ task = first.task
          /\ knowledge = first.knowledge
          /\ pc = first.pc
          /\ nodes = first.nodes
          /\ edges = first.edges
    /\ queries \in {<<second>> : second \in ConcurrentCalls}
    /\ max_depth = DefaultMaxDepth
    /\ relIdx = 0
    /\ exc = NoExc
    /\ result = <<>>
    /\ paths = <<>>
    /\ causal_strength = <<>>
    /\ confounders = <<>>
    /\ confidence = Zero
    /\ before = <<>>
    /\ intervention_effects = <<>>
    /\ counterfactuals = <<>>
    /\ dfs_stack = <<>>
    /\ dfs_path = <<>>
    /\ dfs_visited = {}
    /\ dfs_all_paths = <<>>

NextConcurrent ==
    \/ Switch
    \/ ReasonStart
    \/ BuildNodes
    \/ BuildRelation
    \/ BuildReturn
    \/ ReasonExcept
    \/ IdentifyCausalPathsStart
    \/ DfsEnter
    \/ DfsEdge
    \/ DfsExit
    \/ IdentifyCausalPathsReturn

SpecConcurrent == InitConcurrent /\ [][NextConcurrent]_vars

----------------------------------------------------------------------------
(* Properties *)

\* the ids of the graph's nodes
NodeIds == DictKeys(nodes)

\* hypothesis.get('cause'), hypothesis.get('effect')
Cause == Get(Hypothesis, "cause", None)
Effect == Get(Hypothesis, "effect", None)

\* the key is present in the dict with a non-empty value
Supplied(d, k) == k \in DOMAIN d /\ d[k] # <<>>

\* a query with a non-empty entity list and a hypothesis naming cause and effect
WellFormedQuery ==
    /\ Supplied(task, "entities")
    /\ Supplied(task, "hypothesis")
    /\ Supplied(task.hypothesis, "cause")
    /\ Supplied(task.hypothesis, "effect")

\* the relation is of type causal
IsCausalRelation(r) == "type" \in DOMAIN r.data /\ r.data.type = "causal"

\* the key reads source_target: exactly one underscore
KeyHasTwoParts(key) == Cardinality({i \in DOMAIN key : key[i] = "_"}) = 1

\* the part of a source_target key before (1) or after (2) the underscore
KeyPart(key, which) ==
    LET u == CHOOSE i \in DOMAIN key : key[i] = "_"
    IN  IF which = 1 THEN SubSeq(key, 1, u - 1) ELSE SubSeq(key, u + 1, Len(key))

\* the <<source, target>> pairs of the causal relations with a source_target key
CausalRelationPairs ==
    {<<KeyPart(Relations[i].key, 1), KeyPart(Relations[i].key, 2)>> :
        i \in {j \in DOMAIN Relations :
                  IsCausalRelation(Relations[j]) /\ KeyHasTwoParts(Relations[j].key)}}

\* the sequence has no element twice
NoRepeat(p) == \A a, b \in DOMAIN p : a # b => p[a] # p[b]

\* the simple paths of n nodes from c to e along the pairs
SimplePathsOver(pairs, c, e, n) ==
    LET ids == {c, e} \cup {q[1] : q \in pairs} \cup {q[2] : q \in pairs}
    IN  {p \in [1..n -> ids] :
            /\ p[1] = c
            /\ p[n] = e
            /\ NoRepeat(p)
            /\ \A k \in 1..(n - 1) : <<p[k], p[k + 1]>> \in pairs}

(* C1: for a query with a non-empty entity list, a hypothesis naming cause
   and effect, and relation keys of the form source_target, reason() returns
   a non-empty causal_paths list whenever the causal relations contain a path
   from cause to effect within max_depth hops, with a path flagged direct when
   a cause->effect relation exists and a path flagged not direct when a
   mediated chain exists. *)
C1_ReasonFindsPaths ==
    (/\ pc = "done"
     /\ WellFormedQuery
     /\ \A i \in DOMAIN Relations : KeyHasTwoParts(Relations[i].key))
    => /\ (\E n \in 2..(max_depth + 1) :
              SimplePathsOver(CausalRelationPairs, Cause, Effect, n) # {})
          => result.causal_paths # <<>>
       /\ <<Cause, Effect>> \in CausalRelationPairs
          => \E i \in DOMAIN result.causal_paths : result.causal_paths[i].direct
       /\ (\E n \in 3..(max_depth + 1) :
              SimplePathsOver(CausalRelationPairs, Cause, Effect, n) # {})
          => \E i \in DOMAIN result.causal_paths : ~result.causal_paths[i].direct

(* C2: _build_causal_graph never raises: it completes and returns a graph,
   and when the subgraph has no relation of type causal the returned graph
   has zero edges. *)
C2_BuilderNeverRaises ==
    /\ pc # "except"
    /\ (pc = "built" /\ \A i \in DOMAIN Relations : ~IsCausalRelation(Relations[i]))
       => edges = <<>>

(* C3: no exception propagates out of reason(): whenever a stage raises,
   reason() returns a record with an error field and status 'failed' whose
   remaining fields equal the empty-result shape. *)
C3_NoExceptionPropagates ==
    /\ pc # "propagated"
    /\ (pc = "done" /\ exc # NoExc)
       => /\ DOMAIN result = DOMAIN EmptyResult \cup {"error", "status"}
          /\ result.status = "failed"
          /\ result.error = exc.msg
          /\ result.causal_graph = <<>>
          /\ result.causal_paths = <<>>
          /\ result.causal_strength = [overall_strength |-> 0]
          /\ result.intervention_effects = <<>>
          /\ result.confounders = <<>>
          /\ result.counterfactuals = <<>>
          /\ result.confidence = 0
          /\ result.reasoning_type = "causal_reasoning"

\* C3: reason() has returned after the unpacking of a relation key raised
C3_Witness ==
    /\ pc = "done"
    /\ exc.type = "ValueError"
    /\ "error" \in DOMAIN result

(* C4: for a query whose hypothesis is {} or missing, or whose entity list is
   [] or missing, reason() returns exactly the empty-result shape, with
   confidence 0.0 and overall_strength 0.0, without building a graph and
   without an error or status field. *)
C4_EmptyInputEmptyResult ==
    (~Supplied(task, "entities") \/ ~Supplied(task, "hypothesis"))
    => /\ pc \in {"start", "done"}
       /\ nodes = <<>> /\ edges = <<>> /\ relIdx = 0 /\ exc = NoExc
       /\ pc = "done"
          => /\ result = EmptyResult
             /\ result.confidence = 0
             /\ result.causal_strength.overall_strength = 0
             /\ "error" \notin DOMAIN result
             /\ "status" \notin DOMAIN result

\* C4: reason() has returned for an entity list with an empty hypothesis
C4_Witness ==
    /\ pc = "done"
    /\ Supplied(task, "entities")
    /\ "hypothesis" \in DOMAIN task
    /\ task.hypothesis = <<>>
    /\ result = EmptyResult

(* C5: for a query with a non-empty entity list and a non-empty hypothesis
   that lacks a cause or lacks an effect, reason() does not fail: it returns
   the empty/zero-valued result (no causal paths, overall_strength 0.0,
   confidence 0.0) and the record carries no status 'failed'. *)
C5_MissingCauseOrEffectNotFailure ==
    (/\ pc = "done"
     /\ Supplied(task, "entities")
     /\ Supplied(task, "hypothesis")
     /\ ("cause" \notin DOMAIN task.hypothesis \/ "effect" \notin DOMAIN task.hypothesis))
    => /\ "status" \notin DOMAIN result
       /\ result.causal_paths = <<>>
       /\ result.causal_strength.overall_strength = 0
       /\ result.confidence = 0

(* C6: during graph construction a causal relation whose composite key does
   not split into exactly two parts is skipped and construction continues
   with the remaining relations: the unpacking raises nothing, and at the end
   of the loop every causal relation with a source_target key has its edge. *)
C6_MalformedKeySkipped ==
    /\ exc.type # "ValueError"
    /\ (pc = "build_relations" /\ relIdx > Len(Relations))
       => \A q \in CausalRelationPairs :
              \E j \in DOMAIN edges : edges[j].source = q[1] /\ edges[j].target = q[2]

(* C7: every edge the builder adds to the edge list has its source and its
   target among the graph's nodes; a causal relation naming an endpoint
   outside the entity list is dropped. *)
C7_EdgesReferenceNodes ==
    \A j \in DOMAIN edges :
        edges[j].source \in NodeIds /\ edges[j].target \in NodeIds

\* the edge is a causal edge from s to t
IsCausalEdge(edge, s, t) ==
    edge.type = "causal" /\ edge.source = s /\ edge.target = t

\* the <<source, target>> pairs of the causal edges of the edge list
CausalEdgePairs ==
    {<<edges[j].source, edges[j].target>> :
        j \in {k \in DOMAIN edges : edges[k].type = "causal"}}

\* the node sequences of the returned path records
ReturnedPaths == {paths[i].path : i \in DOMAIN paths}

(* C8: the Path Enumerator never returns a path with more than max_depth + 1
   nodes and never returns a path in which a node id occurs twice, for every
   graph, cyclic graphs and graphs with self-loops included; when the source
   equals the target it returns no path at all. *)
C8_PathsBoundedAndSimple ==
    pc = "paths_returned"
    => /\ \A i \in DOMAIN paths :
              /\ Len(paths[i].path) <= max_depth + 1
              /\ NoRepeat(paths[i].path)
       /\ Cause = Effect => paths = <<>>

\* C8: a path of max_depth + 1 = 3 nodes was returned from a graph that has a
\* causal edge leading from a node of that path back to the source
C8_Witness ==
    /\ pc = "paths_returned"
    /\ max_depth = 2
    /\ \E i \in DOMAIN paths :
           /\ Len(paths[i].path) = 3
           /\ \E j \in DOMAIN edges :
                  IsCausalEdge(edges[j], paths[i].path[2], paths[i].path[1])

(* C9: for a graph with at most one causal edge per ordered node pair, the
   list the Path Enumerator returns holds exactly the simple directed paths
   from source to target that follow only causal edges and have at most
   max_depth hops, each exactly once. *)
C9_ExactlyTheSimplePaths ==
    (/\ pc = "paths_returned"
     /\ Supplied(Hypothesis, "cause")
     /\ Supplied(Hypothesis, "effect")
     /\ \A j, k \in DOMAIN edges :
           (j # k /\ edges[j].type = "causal" /\ edges[k].type = "causal")
           => <<edges[j].source, edges[j].target>> # <<edges[k].source, edges[k].target>>)
    => /\ ReturnedPaths =
              UNION {SimplePathsOver(CausalEdgePairs, Cause, Effect, n) :
                        n \in 2..(max_depth + 1)}
       /\ \A i, j \in DOMAIN paths : i # j => paths[i].path # paths[j].path

\* C9: the first edge of the list is the direct edge cause->effect, and the
\* list returned holds the direct path and a path found on a later branch
C9_Witness ==
    /\ pc = "paths_returned"
    /\ Len(edges) = 3
    /\ IsCausalEdge(edges[1], Cause, Effect)
    /\ \A j, k \in DOMAIN edges :
           j # k => <<edges[j].source, edges[j].target>> # <<edges[k].source, edges[k].target>>
    /\ \E i, j \in DOMAIN paths : paths[i].direct /\ Len(paths[j].path) = 3

(* C10: if the hypothesis's cause or effect is not a node of the graph, the
   Path Enumerator returns an empty list, whatever edges the edge list
   contains. *)
C10_AbsentEndpointNoPaths ==
    (pc = "paths_returned" /\ (Cause \notin NodeIds \/ Effect \notin NodeIds))
    => paths = <<>>

----------------------------------------------------------------------------
(* Properties of the analysis stages *)

\* the float n * 10^-6
Millionths(n) == n * (FloatOne \div 1000000)

\* _calculate_causal_strength has returned
StrengthReturned ==
    pc \in {"strength_returned", "confounders_returned", "confidence_returned"}

\* the graph A->B (0.8), B->C (0.7), C->D (0.6), A->D (0.3) with cause A and
\* effect D, searched to depth 3
ChainScenario ==
    /\ task.entities = <<IdA, IdB, IdC, IdD>>
    /\ Hypothesis = [cause |-> IdA, effect |-> IdD]
    /\ edges = <<CausalEdge(IdA, IdB, 8), CausalEdge(IdB, IdC, 7),
                 CausalEdge(IdC, IdD, 6), CausalEdge(IdA, IdD, 3)>>
    /\ max_depth = 3

\* the paths are one direct path [A,D] of strength 0.3 and one indirect path
\* [A,B,C,D] of strength 0.336
ChainScenarioPaths ==
    /\ Len(paths) = 2
    /\ {paths[i] : i \in DOMAIN paths} =
          {[path |-> <<IdA, IdD>>, length |-> 2,
            total_strength |-> Millionths(300000), direct |-> TRUE],
           [path |-> <<IdA, IdB, IdC, IdD>>, length |-> 4,
            total_strength |-> Millionths(336000), direct |-> FALSE]}

(* C11: on the graph A->B (0.8), B->C (0.7), C->D (0.6), A->D (0.3) with
   cause A, effect D and max_depth 3, the paths are exactly the direct path
   [A,D] of strength 0.3 and the indirect path [A,B,C,D] of strength 0.336,
   direct_strength is 0.3, indirect_strength is 0.336 * 0.8^1 = 0.2688 and
   overall_strength is 0.38064. *)
C11_ChainScenarioStrength ==
    (ChainScenario /\ StrengthReturned)
    => /\ ChainScenarioPaths
       /\ causal_strength.direct_strength = Millionths(300000)
       /\ causal_strength.indirect_strength = Millionths(268800)
       /\ causal_strength.overall_strength = Millionths(380640)

(* C11, amended: on that graph the paths are as stated and direct_strength
   is 0.3, but the 4-node path is discounted by 0.8^(4-2): indirect_strength
   is 0.336 * 0.64 = 0.21504 and overall_strength is
   0.3 + 0.3 * 0.21504 = 0.364512. *)
C11_ChainScenarioStrengthAmended ==
    (ChainScenario /\ StrengthReturned)
    => /\ ChainScenarioPaths
       /\ causal_strength.direct_strength = Millionths(300000)
       /\ causal_strength.indirect_strength = Millionths(215040)
       /\ causal_strength.overall_strength = Millionths(364512)

\* C11: the strength of the chain scenario has been computed from its two paths
C11_Witness ==
    /\ ChainScenario
    /\ pc = "strength_returned"
    /\ Len(paths) = 2
    /\ "indirect_strength" \in DOMAIN causal_strength

(* C12: for every path list built from edge weights in [-1, 1], however many
   paths it contains, the overall_strength returned by
   _calculate_causal_strength lies in [0, 1]. *)
C12_OverallStrengthInUnitInterval ==
    StrengthReturned
    => /\ 0 <= causal_strength.overall_strength
       /\ causal_strength.overall_strength <= FloatOne

\* the weight w, counted in tenths, as a float
WeightAsFloat(w) == w * (FloatOne \div 10)

\* the k-th edge is a causal edge cause->effect, no other edge joins cause to
\* effect, and the path along it is the only path found
OnlyPathIsEdge(k) ==
    /\ edges[k].type = "causal"
    /\ edges[k].source = Cause
    /\ edges[k].target = Effect
    /\ \A j \in DOMAIN edges :
          (edges[j].source = Cause /\ edges[j].target = Effect) => j = k
    /\ Len(paths) = 1
    /\ paths[1].path = <<Cause, Effect>>

(* C13: for every non-empty path list _calculate_causal_strength returns
   overall_strength = min(direct_strength + 0.3 * indirect_strength, 1.0);
   when a direct edge cause->effect of weight w is the only path from cause
   to effect, direct_strength = w and overall_strength = w. *)
C13_OverallStrengthFormula ==
    (StrengthReturned /\ paths # <<>>)
    => /\ LET total == causal_strength.direct_strength
                       + (3 * causal_strength.indirect_strength) \div 10
          IN  causal_strength.overall_strength =
                  IF total <= FloatOne THEN total ELSE FloatOne
       /\ \A k \in DOMAIN edges :
             OnlyPathIsEdge(k)
             => /\ causal_strength.direct_strength = WeightAsFloat(edges[k].weight)
                /\ causal_strength.overall_strength = WeightAsFloat(edges[k].weight)

\* C13: the strength was computed from the single path along an edge
\* cause->effect of weight -1.0
C13_Witness ==
    /\ pc = "strength_returned"
    /\ \E k \in DOMAIN edges : OnlyPathIsEdge(k) /\ edges[k].weight = -10
    /\ causal_strength.overall_strength = -FloatOne

\* the strengths of the 2-node paths of the list
TwoNodeStrengths ==
    {paths[i].total_strength : i \in {j \in DOMAIN paths : Len(paths[j].path) = 2}}

\* the largest of them, 0.0 when there is none
MaxTwoNodeStrength ==
    IF TwoNodeStrengths = {} THEN 0
    ELSE CHOOSE m \in TwoNodeStrengths : \A x \in TwoNodeStrengths : x <= m

(* C14: for every path list, the empty list and the lists without a 2-node
   path included, the record returned by _calculate_causal_strength has a
   direct_strength field, equal to the largest strength among the 2-node
   paths and to 0.0 when there is no 2-node path. *)
C14_DirectStrengthField ==
    StrengthReturned
    => /\ "direct_strength" \in DOMAIN causal_strength
       /\ causal_strength.direct_strength = MaxTwoNodeStrength

\* the graph has no edge of type causal
NoCausalEdges == \A k \in DOMAIN edges : edges[k].type # "causal"

(* C15: for every graph with zero causal edges, whatever the entity list and
   the hypothesis, the path list is empty and overall_strength is 0.0. *)
C15_NoCausalEdgesNoStrength ==
    (StrengthReturned /\ NoCausalEdges)
    => /\ paths = <<>>
       /\ causal_strength.overall_strength = 0

\* C15: the strength was computed for a hypothesis A to B on a graph whose
\* edges, one of them from A to B, are all of another type
C15_Witness ==
    /\ pc = "strength_returned"
    /\ NoCausalEdges
    /\ Cause = IdA
    /\ Effect = IdB
    /\ \E k \in DOMAIN edges : edges[k].source = IdA /\ edges[k].target = IdB
    /\ causal_strength.overall_strength = 0

\* _identify_confounders has returned
ConfoundersReturned == pc \in {"confounders_returned", "confidence_returned"}

\* the weights of the causal edges from s to t
CausalWeights(s, t) ==
    {edges[k].weight : k \in {j \in DOMAIN edges : IsCausalEdge(edges[j], s, t)}}

\* the nodes other than the hypothesis's cause and effect with a causal edge
\* to the cause and a causal edge to the effect
CommonCauses ==
    {n \in NodeIds \ {Cause, Effect} :
        CausalWeights(n, Cause) # {} /\ CausalWeights(n, Effect) # {}}

(* C16: the confounder list is exactly the nodes, other than the
   hypothesis's cause and effect, that have a causal edge to the hypothesis's
   cause and a causal edge to the hypothesis's effect, each reported once
   with the weights of those two edges and needs_adjustment true, whatever
   the order of the ids in the entity list. *)
C16_ConfoundersOfHypothesis ==
    (ConfoundersReturned /\ TruthyStr(Cause) /\ TruthyStr(Effect))
    => /\ {confounders[i].variable : i \in DOMAIN confounders} = CommonCauses
       /\ Len(confounders) = Cardinality(CommonCauses)
       /\ \A i \in DOMAIN confounders :
             /\ confounders[i].effect_on_cause
                    \in CausalWeights(confounders[i].variable, Cause)
             /\ confounders[i].effect_on_effect
                    \in CausalWeights(confounders[i].variable, Effect)
             /\ confounders[i].needs_adjustment

\* the graph Z->X (0.5), Z->Y (0.4), X->Y (0.3) with the entity list X, Y, Z
\* and the hypothesis X to Y
CommonCauseScenario ==
    /\ task.entities = <<IdX, IdY, IdZ>>
    /\ Hypothesis = [cause |-> IdX, effect |-> IdY]
    /\ edges = <<CausalEdge(IdZ, IdX, 5), CausalEdge(IdZ, IdY, 4),
                 CausalEdge(IdX, IdY, 3)>>

(* C17: on the graph with nodes X, Y, Z (entity list X, Y, Z), causal edges
   Z->X (0.5), Z->Y (0.4), X->Y (0.3) and hypothesis cause X effect Y,
   _identify_confounders returns exactly one entry: variable Z,
   effect_on_cause 0.5, effect_on_effect 0.4. *)
C17_CommonCauseScenario ==
    (CommonCauseScenario /\ ConfoundersReturned)
    => /\ Len(confounders) = 1
       /\ confounders[1].variable = IdZ
       /\ confounders[1].effect_on_cause = 5
       /\ confounders[1].effect_on_effect = 4

\* C17: the confounders of the scenario have been computed
C17_Witness ==
    /\ CommonCauseScenario
    /\ pc = "confounders_returned"
    /\ confounders # <<>>

(* C18: adding to the graph a node with an edge to the cause and an edge to
   the effect, appended to the entity list, never raises the confidence: the
   confidence of the extended graph is at most that of the graph before. *)
C18_AddedConfounderNeverRaisesConfidence ==
    (pc = "confidence_returned" /\ before # <<>>)
    => FracLeq(confidence, before[1])

\* C18: the added node was reported as a confounder and the confidence of
\* the extended graph is lower than before
C18_Witness ==
    /\ pc = "confidence_returned"
    /\ before # <<>>
    /\ \E i \in DOMAIN confounders : confounders[i].variable = IdW
    /\ ~FracLeq(before[1], confidence)

\* the entries of the results dictionary handed to _calculate_overall_confidence
ResultsPathList == Get(task.results, "paths", <<>>)
ResultsStrength == Get(task.results, "strength", <<>>)
ResultsConfounderList == Get(task.results, "confounders", <<>>)

\* the sum of the strengths of the first i paths
RECURSIVE StrengthSum(_, _)
StrengthSum(ps, i) ==
    IF i = 0 THEN 0 ELSE StrengthSum(ps, i - 1) + ps[i].total_strength

\* max(1.0 - 0.1 * count, 0.1)
PenaltyOf(count) ==
    IF count <= 9 THEN (10 - count) * (FloatOne \div 10) ELSE FloatOne \div 10

\* f is the mean of the factors: the mean path strength when the path list
\* is not empty, overall_strength when there is a strength record, and the
\* penalty of the confounder count
IsMeanOfFactors(f) ==
    LET n == IF ResultsPathList # <<>> THEN Len(ResultsPathList) ELSE 1
        count == (IF ResultsPathList # <<>> THEN 1 ELSE 0)
                 + (IF ResultsStrength # <<>> THEN 1 ELSE 0) + 1
        total == StrengthSum(ResultsPathList, Len(ResultsPathList))
                 + n * Get(ResultsStrength, "overall_strength", 0)
                 + n * PenaltyOf(Len(ResultsConfounderList))
    IN  f.num * (count * n) = total * f.den

\* no factor has its data: no path, no strength record, no confounder
NoFactorData ==
    /\ ResultsPathList = <<>>
    /\ ResultsStrength = <<>>
    /\ ResultsConfounderList = <<>>

(* C19: _calculate_overall_confidence returns the arithmetic mean of the
   available factors among the mean path strength, overall_strength and the
   penalty max(1.0 - 0.1 * count, 0.1), and returns 0.0 when the path list is
   empty, there is no strength record and the confounder list is empty. *)
C19_MeanOfAvailableFactors ==
    pc = "confidence_computed"
    => IF NoFactorData THEN FracEq(confidence, Zero)
       ELSE IsMeanOfFactors(confidence)

(* C20: for every path list built from edge weights in [-1, 1] and every
   confounder list, the confidence computed from the paths, their strength
   record and the confounders lies in [0.0, 1.0]. *)
C20_ConfidenceInUnitInterval ==
    pc = "confidence_returned"
    => /\ FracLeq(Zero, confidence)
       /\ FracLeq(confidence, Frac(FloatOne))

----------------------------------------------------------------------------
(* Properties of the builder's weights, the intervention and the
   counterfactual stages *)

(* C21: every edge of the built graph has a weight within [-1, 1], for every
   strength the relation supplies and for a relation without strength. *)
C21_EdgeWeightsClamped ==
    \A k \in DOMAIN edges : -10 <= edges[k].weight /\ edges[k].weight <= 10

\* hypothesis.get('intervention', {}) and its variable and value
InterventionSpec == Get(Hypothesis, "intervention", <<>>)
InterventionVariable == Get(InterventionSpec, "variable", None)
InterventionValue == Get(InterventionSpec, "value", 0)

\* _analyze_intervention has returned for a hypothesis with an intervention
InterventionAnalysed == pc = "intervention_returned" /\ InterventionSpec # <<>>

\* the hypothesis with the intervention value v put for its own
WithInterventionValue(v) ==
    [Hypothesis EXCEPT !.intervention = ("value" :> v) @@ InterventionSpec]

(* C22: with the graph and the intervened variable fixed, the intervention
   analysis is linear in the intervention value: for the value 2v the
   direct_effect and the total_effect are twice those for v, and for the
   value 0 both are 0. *)
C22_InterventionLinear ==
    InterventionAnalysed
    => LET doubled == AnalyzeIntervention(Graph, WithInterventionValue(2 * InterventionValue))
       IN  /\ doubled.direct_effect = 2 * intervention_effects.direct_effect
           /\ doubled.total_effect = 2 * intervention_effects.total_effect
           /\ InterventionValue = 0
              => /\ intervention_effects.direct_effect = 0
                 /\ intervention_effects.total_effect = 0

\* C22: an intervention of value 0.5 was analysed on a graph where it has a
\* direct effect and an effect through a mediator
C22_Witness ==
    /\ InterventionAnalysed
    /\ InterventionValue = FloatOne \div 2
    /\ intervention_effects.direct_effect # 0
    /\ intervention_effects.indirect_effects # <<>>
    /\ intervention_effects.total_effect # intervention_effects.direct_effect

\* the positions of the edges leaving the intervened variable
LeavingEdges == {k \in DOMAIN edges : edges[k].source = InterventionVariable}

\* the sum of f[x] over the finite set S
RECURSIVE SetSum(_, _)
SetSum(S, f) ==
    IF S = {} THEN 0
    ELSE LET x == CHOOSE y \in S : TRUE IN f[x] + SetSum(S \ {x}, f)

\* the two-hop chains variable -> mediator -> downstream, as <<mediator, downstream>>
TwoHopChains ==
    {<<edges[j].target, edges[k].target>> :
        <<j, k>> \in {q \in LeavingEdges \X DOMAIN edges :
                         edges[q[2]].source = edges[q[1]].target}}

\* the values weight1 * weight2 * value of the edge pairs along a chain
ChainValues(chain) ==
    {(edges[j].weight * edges[k].weight * InterventionValue) \div 100 :
        <<j, k>> \in {q \in LeavingEdges \X DOMAIN edges :
                         /\ edges[q[1]].target = chain[1]
                         /\ edges[q[2]].source = chain[1]
                         /\ edges[q[2]].target = chain[2]}}

(* C23: for every graph and intervention (variable, value), direct_effect is
   the sum of weight * value over the edges leaving the variable,
   indirect_effects has exactly one entry per two-hop chain
   variable -> mediator -> downstream, of value weight1 * weight2 * value,
   total_effect is direct_effect + 0.7 * the sum of the indirect_effects
   values, and confidence is min(0.9, 0.3 * the number of edges leaving the
   variable). *)
C23_InterventionEffects ==
    InterventionAnalysed
    => LET ie == intervention_effects.indirect_effects
       IN  /\ intervention_effects.direct_effect =
                  SetSum(LeavingEdges,
                         [k \in LeavingEdges |->
                             (edges[k].weight * InterventionValue) \div 10])
           /\ Len(ie) = Cardinality(TwoHopChains)
           /\ \A chain \in TwoHopChains :
                 \E i \in DOMAIN ie :
                    /\ ie[i].key = ChainKey(InterventionVariable, chain[1], chain[2])
                    /\ ie[i].data \in ChainValues(chain)
           /\ intervention_effects.total_effect =
                  intervention_effects.direct_effect
                  + (7 * SetSum(DOMAIN ie, [i \in DOMAIN ie |-> ie[i].data])) \div 10
           /\ intervention_effects.confidence =
                  IF 3 * Cardinality(LeavingEdges) < 9
                  THEN 3 * Cardinality(LeavingEdges) * (FloatOne \div 10)
                  ELSE 9 * (FloatOne \div 10)

\* C23: an intervention on C was analysed on a graph with two edges
\* leaving C, one of them of another type, and a chain C -> A -> B
C23_Witness ==
    /\ InterventionAnalysed
    /\ InterventionVariable = IdC
    /\ InterventionValue # 0
    /\ Cardinality(LeavingEdges) = 2
    /\ \E k \in LeavingEdges : edges[k].type # "causal"
    /\ <<IdA, IdB>> \in TwoHopChains

(* C24: in the result of reason() for a query with a non-empty entity list
   and a hypothesis naming cause and effect, intervention_effects is the
   empty record exactly when the hypothesis supplies no intervention; when
   one is supplied the record has a total_effect and its target_variable is
   the intervention's variable. *)
C24_InterventionEffectsInResult ==
    (pc = "done" /\ WellFormedQuery)
    => /\ result.intervention_effects = <<>> <=> InterventionSpec = <<>>
       /\ InterventionSpec # <<>>
          => /\ "total_effect" \in DOMAIN result.intervention_effects
             /\ result.intervention_effects.target_variable = InterventionVariable

\* hypothesis.get('counterfactual', {}) and its two values
CounterfactualSpec == Get(Hypothesis, "counterfactual", <<>>)
OriginalValue == Get(CounterfactualSpec, "original_value", 0)
CounterfactualValue == Get(CounterfactualSpec, "counterfactual_value", 0)

(* C25: the counterfactual analysis is reproducible: the same counterfactual
   always yields factual_outcome = 0.8 * original_value,
   counterfactual_outcome = 0.8 * counterfactual_value and
   individual_treatment_effect = 0.8 * (counterfactual_value -
   original_value), so that two runs on one input give the same record and
   equal original and counterfactual values give an effect of 0. *)
C25_CounterfactualReproducible ==
    (pc = "counterfactual_returned" /\ CounterfactualSpec # <<>>)
    => /\ counterfactuals.factual_outcome = (8 * OriginalValue) \div 10
       /\ counterfactuals.counterfactual_outcome = (8 * CounterfactualValue) \div 10
       /\ counterfactuals.individual_treatment_effect =
              (8 * (CounterfactualValue - OriginalValue)) \div 10
       /\ OriginalValue = CounterfactualValue
          => counterfactuals.individual_treatment_effect = 0

----------------------------------------------------------------------------
(* Properties of the path records and their order *)

\* the weights, in tenths, of the edges from s to t
WeightsBetween(s, t) ==
    {edges[k].weight : k \in {j \in DOMAIN edges :
                                 edges[j].source = s /\ edges[j].target = t}}

\* the products of one weight per step of the path p, from step i on
RECURSIVE WeightProducts(_, _)
WeightProducts(p, i) ==
    IF i >= Len(p) THEN {1}
    ELSE {w * r : w \in WeightsBetween(p[i], p[i + 1]), r \in WeightProducts(p, i + 1)}

RECURSIVE TenTo(_)
TenTo(n) == IF n = 0 THEN 1 ELSE 10 * TenTo(n - 1)

\* the strength s is the product of the weights of edges joining the
\* consecutive nodes of p: a product of n weights in tenths is s * 10^n
IsProductOfWeights(p, s) ==
    \E prod \in WeightProducts(p, 1) : s = (FloatOne \div TenTo(Len(p) - 1)) * prod

(* C26: every path record the path enumerator returns starts at the cause,
   ends at the effect, has at least two nodes, has length equal to its number
   of nodes, is direct exactly when it has two nodes, and has total_strength
   equal to the product of the weights of the edges between its consecutive
   nodes. *)
C26_PathRecordWellFormed ==
    pc = "paths_returned"
    => \A i \in DOMAIN paths :
          LET r == paths[i]
          IN  /\ Len(r.path) >= 2
              /\ r.path[1] = Cause
              /\ r.path[Len(r.path)] = Effect
              /\ r.length = Len(r.path)
              /\ r.direct <=> (Len(r.path) = 2)
              /\ IsProductOfWeights(r.path, r.total_strength)

\* a direct record of strength 1.0 and a three-node record of strength 0.25
\* are returned together
C26_Witness ==
    /\ pc = "paths_returned"
    /\ \E i, j \in DOMAIN paths :
          /\ paths[i].direct /\ paths[i].total_strength = FloatOne
          /\ paths[j].length = 3 /\ ~paths[j].direct
          /\ paths[j].total_strength = FloatOne \div 4

\* the records in the order _dfs_causal_paths appends them to all_paths
DiscoveryOrder ==
    DfsCausalPaths(Graph, Cause, Effect,
                   [path |-> <<>>, all_paths |-> <<>>, visited |-> {}], 0).all_paths

\* the records of strength s, in the order they have in the list
TiesOf(list, s) ==
    LET HasStrength(r) == r.total_strength = s
    IN  SelectSeq(list, HasStrength)

\* the first position at which the node sequences p and q differ
FirstDifference(p, q) ==
    CHOOSE k \in DOMAIN p :
        /\ k \in DOMAIN q
        /\ p[k] # q[k]
        /\ \A m \in 1..(k - 1) : p[m] = q[m]

\* a causal edge from a to b stands in the edge list before one from a to c
EdgeListOrder(a, b, c) ==
    \E e, f \in DOMAIN edges :
        /\ e < f
        /\ IsCausalEdge(edges[e], a, b)
        /\ IsCausalEdge(edges[f], a, c)

(* C27: the returned list of path records is ordered by non-increasing
   total_strength, and records of equal strength appear in the order in which
   the depth-first search discovered them, which is the edge-list order of
   the first edge in which two paths differ. *)
C27_SortedStable ==
    (pc = "paths_returned" /\ TruthyStr(Cause) /\ TruthyStr(Effect))
    => /\ \A i, j \in DOMAIN paths :
              i < j => paths[i].total_strength >= paths[j].total_strength
       /\ \A i \in DOMAIN paths :
              TiesOf(paths, paths[i].total_strength)
                  = TiesOf(DiscoveryOrder, paths[i].total_strength)
       /\ \A i, j \in DOMAIN paths :
              (/\ i < j
               /\ paths[i].total_strength = paths[j].total_strength
               /\ paths[i].path # paths[j].path)
              => LET p == paths[i].path
                     q == paths[j].path
                     k == FirstDifference(p, q)
                 IN  EdgeListOrder(p[k - 1], p[k], q[k])

\* the three-node path and the direct path have the same strength, 0.5; the
\* three-node path was discovered first and is returned first
C27_Witness ==
    /\ pc = "paths_returned"
    /\ Len(paths) = 2
    /\ paths[1].path = <<IdA, IdC, IdB>>
    /\ paths[2].path = <<IdA, IdB>>
    /\ paths[1].total_strength = paths[2].total_strength
    /\ DiscoveryOrder = paths

----------------------------------------------------------------------------
(* Properties of the depth-first search, step by step *)

\* the nodes on the current path
PathNodes == {dfs_path[i] : i \in DOMAIN dfs_path}

\* the step is the return of the innermost pending call
DfsReturns == pc = "dfs" /\ dfs_stack # <<>> /\ dfs_stack' = Pop(dfs_stack)

(* C28: when a call of _dfs_causal_paths returns, the current path and the
   visited set are what they were at the call's entry; at every step the
   visited set is the set of the nodes on the current path; and path
   enumeration never modifies the nodes or the edges of the graph. *)
C28_DfsRestoresPathAndVisited ==
    /\ [](dfs_visited = PathNodes)
    /\ [][/\ DfsReturns => /\ dfs_path' = Top.path_at_entry
                           /\ dfs_visited' = Top.visited_at_entry
          /\ nodes' = nodes
          /\ edges' = edges]_vars

\* the outermost call is back in its edge loop after an inner call that had
\* appended a node and recorded a path has returned
C28_Witness ==
    /\ pc = "dfs"
    /\ Len(dfs_stack) = 1
    /\ Top.k > 1
    /\ dfs_all_paths # <<>>
    /\ dfs_path = <<IdA>>
    /\ dfs_visited = {IdA}

\* the pending calls of _dfs_causal_paths that have appended their node
PendingEntered == {i \in DOMAIN dfs_stack : dfs_stack[i].entered}

(* C29: path enumeration terminates on every finite graph and for every
   max_depth >= 0, graphs with cycles and self-loops included, and the number
   of pending calls that have appended a node never exceeds max_depth + 1. *)
C29_EnumerationTerminates ==
    /\ <>(pc = "paths_returned")
    /\ [](Cardinality(PendingEntered) <= max_depth + 1)

\* the enumeration has returned a path on a graph with the self-loop A->A and
\* the cycle A->B->A
C29_Witness ==
    /\ pc = "paths_returned"
    /\ paths # <<>>
    /\ \E i, j, k \in DOMAIN edges :
          /\ IsCausalEdge(edges[i], IdA, IdA)
          /\ IsCausalEdge(edges[j], IdA, IdB)
          /\ IsCausalEdge(edges[k], IdB, IdA)

----------------------------------------------------------------------------
(* Properties of two calls on one instance *)

\* the exception of the first causal relation whose key does not split into
\* two parts, NoExc if there is none
RECURSIVE FirstUnpackError(_, _)
FirstUnpackError(rels, i) ==
    IF i > Len(rels) THEN NoExc
    ELSE IF Get(rels[i].data, "type", NoneTag) = "causal" /\ ~KeyHasTwoParts(rels[i].key)
         THEN UnpackError(Split(rels[i].key))
         ELSE FirstUnpackError(rels, i + 1)

\* what reason(t, k) returns when it runs alone
ReasonAlone(t, k) ==
    LET unpack == FirstUnpackError(Get(Get(k, "subgraph", <<>>), "relations", <<>>), 1)
    IN  IF EmptyInput(Get(t, "entities", <<>>), Get(t, "hypothesis", <<>>))
        THEN EmptyResult
        ELSE IF unpack # NoExc
             THEN ErrorResult(unpack.msg)
             ELSE ErrorResult("'CausalReasoningStrategy' object has no attribute '_calculate_temporal_coverage'")

\* what _identify_causal_paths returns for the call's graph and hypothesis
\* when it runs alone
PathsAlone(call) ==
    IdentifyCausalPaths([nodes |-> call.nodes, edges |-> call.edges],
                        Get(call.task, "hypothesis", <<>>))

\* the call has returned what it returns when run alone
AsWhenRunAlone(call) ==
    /\ call.pc = "done" => call.result = ReasonAlone(call.task, call.knowledge)
    /\ call.pc = "paths_returned" => call.paths = PathsAlone(call)

(* C30: two queries that run concurrently on one instance, interleaved at any
   step, each return what they return when run alone, and no query reads or
   writes the state (path list, visited set, graph) of the other: a step of
   one query leaves the suspended query's state as it was, and a suspended
   query resumes with the state it was suspended with. *)
C30_ConcurrentQueriesIsolated ==
    /\ [](AsWhenRunAlone(Activation) /\ AsWhenRunAlone(queries[1]))
    /\ [][\/ queries' = queries
          \/ queries' = <<Activation>> /\ Activation' = queries[1]]_vars

\* one call of _identify_causal_paths has returned its two paths while the
\* other, on another graph, is suspended in the middle of its search with two
\* nodes on its path
C30_Witness ==
    /\ pc = "paths_returned"
    /\ Len(paths) = 2
    /\ queries[1].pc = "dfs"
    /\ Len(queries[1].dfs_path) = 2
    /\ queries[1].dfs_visited = {IdC, IdA}
    /\ queries[1].edges # edges
====
